---- MODULE Spec2Model ----
(***************************************************************************)
(* A model of the B+ front end and tree-walking interpreter:               *)
(* Lexer -> Pratt parser -> evaluator, with the chained environments and   *)
(* runtime values they share.                                              *)
(*                                                                         *)
(* Text is a sequence of bytes; an ASCII byte is written as the one        *)
(* character string of its character, a byte >= 0x80 as its two hex        *)
(* digits ("E0"), and the byte 0 as NUL.  A Rust String value (a token     *)
(* literal, an identifier name) is the sequence of its bytes.  A panic of  *)
(* the host program is a value of its own (a lexer or parser with          *)
(* fault = TRUE, the runtime value Panic) that every caller passes on, the *)
(* way unwinding does.                                                     *)
(***************************************************************************)
EXTENDS Integers, Sequences, FiniteSets, TLC

\* ------------------------------------------------------------------ bytes

NUL == "NUL"

Lower == <<"a","b","c","d","e","f","g","h","i","j","k","l","m",
           "n","o","p","q","r","s","t","u","v","w","x","y","z">>

Upper == <<"A","B","C","D","E","F","G","H","I","J","K","L","M",
           "N","O","P","Q","R","S","T","U","V","W","X","Y","Z">>

DigitChars == <<"0","1","2","3","4","5","6","7","8","9">>

Range(s) == {s[i] : i \in DOMAIN s}

is_ascii_alphabetic(c) == c \in Range(Lower) \cup Range(Upper)

is_ascii_digit(c) == c \in Range(DigitChars)

is_ascii_whitespace(c) == c \in {" ", "\t", "\n", "\f", "\r"}

\* The UTF-8 continuation bytes 0x80..0xBF: no character starts at one.
ContinuationBytes ==
    {a \o b : a \in {"8", "9", "A", "B"},
              b \in {"0","1","2","3","4","5","6","7","8","9","A","B","C","D","E","F"}}

is_char_boundary(input, i) ==
    \/ i = 0
    \/ i = Len(input)
    \/ i < Len(input) /\ input[i + 1] \notin ContinuationBytes

to_lowercase_char(c) ==
    IF c \in Range(Upper)
    THEN Lower[CHOOSE i \in DOMAIN Upper : Upper[i] = c]
    ELSE c

\* A call from one function of the program to another is written
\* call("f", <<a, b>>) for f(a, b): call, defined after the evaluator, is the one
\* operator through which the functions reach each other and themselves. A
\* function that only reads a field or builds a value is applied directly.
RECURSIVE call(_, _)

\* ------------------------------------------------------------------ token.rs

KEYWORDS ==
    {
      <<<<"d","h","o","r","o">>, "Dhoro">>,
      <<<<"d","h","o","r","i">>, "Dhoro">>,
      <<<<"m","o","n","e","k","o","r","i">>, "Dhoro">>,
      <<<<"m","o","n","e","k","o","r","o">>, "Dhoro">>,
      <<<<"m","o","n","e"," ","k","o","r","i">>, "Dhoro">>,
      <<<<"m","o","n","e"," ","k","o","r","o">>, "Dhoro">>,
      <<<<"t","e","m","p">>, "Temp">>,
      <<<<"t","e","m","p","o","r","a","r","y">>, "Temp">>,
      <<<<"c","h","a","n","g","a","b","l","e">>, "Temp">>,
      <<<<"o","s","t","h","a","y","i">>, "Temp">>,
      <<<<"m","u","t","a","b","l","e">>, "Temp">>,
      <<<<"m","u","t">>, "Temp">>,
      <<<<"k","a","j">>, "Function">>,
      <<<<"f","n">>, "Function">>,
      <<<<"f","u","n","c","t","i","o","n">>, "Function">>,
      <<<<"h","a">>, "Ha">>,
      <<<<"t","h","i","k">>, "Ha">>,
      <<<<"s","o","t","t","i">>, "Ha">>,
      <<<<"s","h","o","t","t","i">>, "Ha">>,
      <<<<"t","r","u","e">>, "Ha">>,
      <<<<"s","h","o","t","t","o">>, "Ha">>,
      <<<<"s","o","t","t","o">>, "Ha">>,
      <<<<"n","a">>, "Na">>,
      <<<<"m","i","t","t","h","e">>, "Na">>,
      <<<<"m","i","t","t","h","a">>, "Na">>,
      <<<<"f","a","l","s","e">>, "Na">>,
      <<<<"t","h","i","k"," ","n","o","y">>, "Na">>,
      <<<<"t","h","i","k","n","o","y">>, "Na">>,
      <<<<"v","u","l">>, "Na">>,
      <<<<"b","h","u","l">>, "Na">>,
      <<<<"j","o","d","i">>, "Jodi">>,
      <<<<"h","o","y">>, "Hoy">>,
      <<<<"h","o","y","e">>, "Hoy">>,
      <<<<"h","o","y","e","t","h","a","k","e">>, "Hoy">>,
      <<<<"h","o","y","e"," ","t","h","a","k","e">>, "Hoy">>,
      <<<<"t","a","h","o","l","e">>, "Tahole">>,
      <<<<"t","o","b","e">>, "Tahole">>,
      <<<<"n","a","h","o","y">>, "Nahoy">>,
      <<<<"n","a","h","o","l","e">>, "Nahoy">>,
      <<<<"n","o","y","t","o">>, "Nahoy">>,
      <<<<"n","o","i","l","e">>, "Nahoy">>,
      <<<<"e","b","o","n","g">>, "Ebong">>,
      <<<<"a","n","d">>, "Ebong">>,
      <<<<"o","t","h","o","b","a">>, "Othoba">>,
      <<<<"b","a">>, "Othoba">>,
      <<<<"o","r">>, "Othoba">>,
      <<<<"f","e","r","o","t">>, "ReturnKoro">>,
      <<<<"f","e","r","o","t"," ","k","o","r","o">>, "ReturnKoro">>,
      <<<<"r","e","t","u","r","n"," ","k","o","r","o">>, "ReturnKoro">>,
      <<<<"r","e","t","u","r","n">>, "ReturnKoro">>,
      <<<<"d","e","k","h","a","o">>, "Dekhao">>,
      <<<<"p","r","i","n","t">>, "Dekhao">>,
      <<<<"s","h","o","w"," ","k","o","r","o">>, "Dekhao">>,
      <<<<"i","n","p","u","t"," ","n","a","o">>, "InputNao">>,
      <<<<"i","n","p","u","t">>, "InputNao">>,
      <<<<"i","n","p","u","t"," ","n","a","o"," ","k","o","r","o">>, "InputNao">>,
      <<<<"n","i","b","h","o">>, "InputNao">>,
      <<<<"s","h","o","m","o","y">>, "Shomoy">>,
      <<<<"t","i","m","e">>, "Shomoy">>,
      <<<<"s","o","m","o","y">>, "Shomoy">>,
      <<<<"/","/">>, "EkLineMontobbo">>,
      <<<<"#">>, "EkLineMontobbo">>,
      <<<<"/","*">>, "BohuLineMontobboShuru">>,
      <<<<"/","/","-","-">>, "BohuLineMontobboShuru">>,
      <<<<"<","!","-","-">>, "BohuLineMontobboShuru">>,
      <<<<"<","c","o","m","m","e","n","t",">">>, "BohuLineMontobboShuru">>,
      <<<<"<","c","m","n","t",">">>, "BohuLineMontobboShuru">>,
      <<<<"<","m","o","n","t","o","b","b","o",">">>, "BohuLineMontobboShuru">>,
      <<<<"*","/">>, "BohuLineMontobboShesh">>,
      <<<<"-","-","/","/">>, "BohuLineMontobboShesh">>,
      <<<<"-","-",">">>, "BohuLineMontobboShesh">>,
      <<<<"-","-","!",">">>, "BohuLineMontobboShesh">>,
      <<<<"<","/","c","o","m","m","e","n","t",">">>, "BohuLineMontobboShesh">>,
      <<<<"<","/","c","m","n","t",">">>, "BohuLineMontobboShesh">>,
      <<<<"<","/","m","o","n","t","o","b","b","o",">">>, "BohuLineMontobboShesh">>,
      <<<<"j","o","t","o","k","h","o","n">>, "Jotokhon">>,
      <<<<"j","o","t","o","k","h","o","n"," ","p","o","r","j","o","n","t","o">>, "Jotokhon">>,
      <<<<"a","g","e"," ","k","o","r","o">>, "AgeKoro">>,
      <<<<"a","g","e","k","o","r","o">>, "AgeKoro">>,
      <<<<"e","r"," ","j","o","n","n","o">>, "ErJonno">>,
      <<<<"e","r","j","o","n","n","o">>, "ErJonno">>,
      <<<<"p","r","o","t","i","t","a","r"," ","j","o","n","n","o">>, "ProtitarJonno">>,
      <<<<"p","r","o","t","i","t","a","r","j","o","n","n","o">>, "ProtitarJonno">>,
      <<<<"c","h","o","l","u","k">>, "Choluk">>,
      <<<<"t","h","a","m","o">>, "Thamo">>,
      <<<<"b","h","a","n","g","o">>, "Thamo">>,
      <<<<"j","e","k","h","a","n","e">>, "Jekhane">>,
      <<<<"p","r","o","t","i","b","a","r">>, "Protibar">>,
      <<<<"a","m","d","a","n","i"," ","k","o","r","o">>, "ImportKoro">>,
      <<<<"i","m","p","o","r","t">>, "ImportKoro">>,
      <<<<"i","m","p","o","r","t"," ","k","o","r","o">>, "ImportKoro">>,
      <<<<"r","o","p","t","a","n","i"," ","k","o","r","o">>, "ExportKoro">>,
      <<<<"e","x","p","o","r","t">>, "ExportKoro">>,
      <<<<"e","x","p","o","r","t"," ","k","o","r","o">>, "ExportKoro">>,
      <<<<"m","o","d","u","l","e">>, "Module">>,
      <<<<"e","i"," ","h","i","s","e","b","e">>, "EiHisebe">>,
      <<<<"a","s">>, "EiHisebe">>,
      <<<<"t","r","y"," ","k","o","r","o">>, "CheshtaKoro">>,
      <<<<"t","r","y">>, "CheshtaKoro">>,
      <<<<"c","h","e","s","h","t","a"," ","k","o","r","o">>, "CheshtaKoro">>,
      <<<<"d","h","o","r","e"," ","f","e","l","o">>, "DhoreFelo">>,
      <<<<"c","a","t","c","h">>, "DhoreFelo">>,
      <<<<"o","b","o","s","e","s","h","e">>, "Oboseshe">>,
      <<<<"f","i","n","a","l","l","y">>, "Oboseshe">>,
      <<<<"f","e","l","o">>, "ThrowKoro">>,
      <<<<"t","h","r","o","w">>, "ThrowKoro">>,
      <<<<"t","h","r","o","w"," ","k","o","r","o">>, "ThrowKoro">>,
      <<<<"t","y","p","e"," ","b","a","n","a","o">>, "TypeBanao">>,
      <<<<"t","y","p","e"," ","g","o","t","h","o","n"," ","k","o","r","o">>, "TypeBanao">>,
      <<<<"n","i","r","d","h","a","r","o","n"," ","k","o","r","o">>, "TypeBanao">>,
      <<<<"t","y","p","e"," ","d","a","o">>, "TypeBanao">>,
      <<<<"d","h","o","r","o","n"," ","b","e","r"," ","k","o","r","o">>, "Dhoroner">>,
      <<<<"t","y","p","e"," ","n","i","r","n","o","y"," ","k","o","r","o">>, "Dhoroner">>,
      <<<<"t","y","p","e","o","f">>, "Dhoroner">>,
      <<<<"k","i","s","u","n","a">>, "Kisuna">>,
      <<<<"n","i","l">>, "Kisuna">>,
      <<<<"n","u","l","l">>, "Kisuna">>,
      <<<<"n","o","n","e">>, "Kisuna">>,
      <<<<"o","p","e","k","k","h","a">>, "OpekkhaKoro">>,
      <<<<"o","p","e","k","k","h","a"," ","k","o","r","o">>, "OpekkhaKoro">>,
      <<<<"a","w","a","i","t">>, "OpekkhaKoro">>,
      <<<<"s","h","o","m","o","y"," ","n","i","r","o","p","e","k","k","h","o">>, "ShomoyNiropekho">>,
      <<<<"a","s","y","n","c","h","r","o","n","o","u","s">>, "ShomoyNiropekho">>,
      <<<<"a","s","y","n","c">>, "ShomoyNiropekho">>
    }

KEYWORDS_get(s) ==
    IF \E e \in KEYWORDS : e[1] = s
    THEN <<(CHOOSE e \in KEYWORDS : e[1] = s)[2]>>
    ELSE <<>>

\* char::is_whitespace on the bytes the model writes: ASCII whitespace and the
\* vertical tab, the byte 0x0B, written VT.
is_whitespace(c) == is_ascii_whitespace(c) \/ c = "VT"

\* The whitespace-separated words of s; cur is the word being read.
split_whitespace(s, cur, acc) ==
    IF s = <<>>
    THEN IF cur = <<>> THEN acc ELSE Append(acc, cur)
    ELSE IF is_whitespace(Head(s))
         THEN call("split_whitespace", <<Tail(s), <<>>, IF cur = <<>> THEN acc ELSE Append(acc, cur)>>)
         ELSE call("split_whitespace", <<Tail(s), Append(cur, Head(s)), acc>>)

RECURSIVE join(_, _)
join(words, sep) ==
    IF words = <<>> THEN <<>>
    ELSE IF Len(words) = 1 THEN words[1]
    ELSE words[1] \o sep \o join(Tail(words), sep)

\* normalize_keyword without to_lowercase.
normalize_keyword_keeps_case(ident) ==
    join(call("split_whitespace", <<ident, <<>>, <<>>>>), <<" ">>)

normalize_keyword(ident) ==
    join(call("split_whitespace", <<[i \in DOMAIN ident |-> call("to_lowercase_char", <<ident[i]>>)], <<>>, <<>>>>),
         <<" ">>)

lookup_ident(ident) ==
    IF call("KEYWORDS_get", <<ident>>) # <<>>
    THEN call("KEYWORDS_get", <<ident>>)[1]
    ELSE IF call("KEYWORDS_get", <<normalize_keyword(ident)>>) # <<>>
         THEN call("KEYWORDS_get", <<normalize_keyword(ident)>>)[1]
         ELSE "Ident"

Token_new(token_type, literal, line, column) ==
    [token_type |-> token_type, literal |-> literal, line |-> line, column |-> column]

\* ------------------------------------------------------------------ lexer.rs

read_char(l) ==
    LET ch == IF l.read_position >= Len(l.input) THEN NUL ELSE l.input[l.read_position + 1]
    IN  [l EXCEPT !.ch = ch,
                  !.position = l.read_position,
                  !.read_position = l.read_position + 1,
                  !.line = IF ch = "\n" THEN l.line + 1 ELSE l.line,
                  !.column = IF ch = "\n" THEN 0 ELSE l.column + 1]

\* n calls of read_char in a row.
read_chars(l, n) == IF n = 0 THEN l ELSE call("read_chars", <<read_char(l), n - 1>>)

Lexer_new(input) ==
    read_char([input |-> input, position |-> 0, read_position |-> 0, ch |-> NUL,
               line |-> 1, column |-> 0,
               token_start_line |-> 1, token_start_column |-> 0,
               fault |-> FALSE])

peek_char(l) ==
    IF l.read_position >= Len(l.input) THEN NUL ELSE l.input[l.read_position + 1]

\* &self.input[self.position..] panics when position is inside a character.
is_unicode_bengali_letter_panics(l) ==
    l.position < Len(l.input) /\ ~is_char_boundary(l.input, l.position)

\* U+0980..U+09FF are the characters encoded E0 A6 80 .. E0 A7 BF.
is_unicode_bengali_letter(l) ==
    /\ l.position < Len(l.input)
    /\ l.input[l.position + 1] = "E0"
    /\ l.position + 1 < Len(l.input)
    /\ l.input[l.position + 2] \in {"A6", "A7"}

\* The guard of the identifier arm; || evaluates left to right and stops early.
is_identifier_char_panics(l) ==
    /\ ~call("is_ascii_alphabetic", <<l.ch>>)
    /\ l.ch # "_"
    /\ call("is_unicode_bengali_letter_panics", <<l>>)

is_identifier_char(l) ==
    call("is_ascii_alphabetic", <<l.ch>>) \/ l.ch = "_" \/ is_unicode_bengali_letter(l)

skip_whitespace(l) ==
    IF is_ascii_whitespace(l.ch) THEN call("skip_whitespace", <<read_char(l)>>) ELSE l

skip_single_line_comment(l) ==
    IF l.ch # "\n" /\ l.ch # NUL THEN call("skip_single_line_comment", <<read_char(l)>>) ELSE l

skip_multi_line_comment_loop(l, start, end, end_matched) ==
    IF l.ch = NUL
    THEN [l |-> l, err |-> <<"Unterminated multi-line comment starting with " \o start>>]
    ELSE IF l.ch = end[end_matched + 1]
         THEN IF end_matched + 1 = Len(end)
              THEN [l |-> read_char(l), err |-> <<>>]
              ELSE call("skip_multi_line_comment_loop", <<read_char(l), start, end, end_matched + 1>>)
         ELSE call("skip_multi_line_comment_loop", <<read_char(l), start, end, 0>>)

\* start is the opener as text (it only appears in the message), end the closer's bytes.
skip_multi_line_comment(l, start, end) == call("skip_multi_line_comment_loop", <<l, start, end, 0>>)

peek_n_chars_panics(l, n) ==
    LET start == l.position + 1
        end == IF start + n < Len(l.input) THEN start + n ELSE Len(l.input)
    IN  /\ start < Len(l.input)
        /\ ~(is_char_boundary(l.input, start) /\ is_char_boundary(l.input, end))

peek_n_chars(l, n) ==
    LET start == l.position + 1
        end == IF start + n < Len(l.input) THEN start + n ELSE Len(l.input)
    IN  IF start >= Len(l.input) THEN <<>> ELSE SubSeq(l.input, start + 1, end)

read_identifier_loop(l) ==
    IF l.fault THEN l
    ELSE IF is_identifier_char_panics(l) THEN [l EXCEPT !.fault = TRUE]
    ELSE IF is_identifier_char(l) THEN call("read_identifier_loop", <<read_char(l)>>)
    ELSE l

read_identifier(l) ==
    LET l2 == call("read_identifier_loop", <<l>>)
    IN  [l |-> l2, s |-> SubSeq(l.input, l.position + 1, l2.position)]

read_number_loop(l, has_dot, has_exp, has_i, token_type) ==
    LET c == l.ch
    IN  IF is_ascii_digit(c)
        THEN call("read_number_loop", <<read_char(l), has_dot, has_exp, has_i, token_type>>)
        ELSE IF c = "." /\ ~has_dot /\ ~has_i
        THEN call("read_number_loop", <<read_char(l), TRUE, has_exp, has_i, "Float">>)
        ELSE IF (c = "e" \/ c = "E") /\ ~has_exp /\ ~has_i
        THEN call("read_number_loop", <<read_char(l), has_dot, TRUE, has_i, "Double">>)
        ELSE IF (c = "+" \/ c = "-") /\ has_exp
        THEN call("read_number_loop", <<read_char(l), has_dot, has_exp, has_i, token_type>>)
        ELSE IF c = "i" /\ ~has_i
        THEN call("read_number_loop", <<read_char(l), has_dot, has_exp, TRUE, "Complex">>)
        ELSE IF c = "m" \/ c = "M"
        THEN call("read_number_loop", <<read_char(l), has_dot, has_exp, has_i, "Decimal">>)
        ELSE [l |-> l, token_type |-> token_type]

read_number(l) ==
    LET r == call("read_number_loop", <<l, FALSE, FALSE, FALSE, "Int">>)
    IN  [l |-> r.l, s |-> SubSeq(l.input, l.position + 1, r.l.position),
         token_type |-> r.token_type]

\* `byte as char` pushed to a String: the character U+0000..U+00FF with the
\* byte's number, in UTF-8 (two bytes from 0x80 on).
as_char(c) ==
    LET hex == {"0","1","2","3","4","5","6","7","8","9","A","B","C","D","E","F"}
        low == {p \in {"8", "9", "A", "B"} \X hex : p[1] \o p[2] = c}
        high == {p \in {"C", "D", "E", "F"} \X hex : p[1] \o p[2] = c}
        down == [d \in {"C", "D", "E", "F"} |->
                    IF d = "C" THEN "8" ELSE IF d = "D" THEN "9" ELSE IF d = "E" THEN "A" ELSE "B"]
    IN  IF low # {} THEN <<"C2", c>>
        ELSE IF high # {}
        THEN LET p == CHOOSE q \in high : TRUE IN <<"C3", down[p[1]] \o p[2]>>
        ELSE <<c>>

\* The character an escape sequence stands for; `other as char` for the rest.
escaped_char(c) ==
    IF c = "n" THEN "\n"
    ELSE IF c = "t" THEN "\t"
    ELSE IF c = "r" THEN "\r"
    ELSE c

read_string_loop(l, result) ==
    IF l.ch # "\"" /\ l.ch # NUL
    THEN IF l.ch = "\\"
         THEN LET l2 == read_char(l)
              IN  call("read_string_loop", <<read_char(l2), result \o as_char(escaped_char(l2.ch))>>)
         ELSE call("read_string_loop", <<read_char(l), result \o as_char(l.ch)>>)
    ELSE [l |-> l, s |-> result]

read_string(l) ==
    LET r == call("read_string_loop", <<read_char(l), <<>>>>)
    IN  IF r.l.ch = "\""
        THEN [l |-> read_char(r.l), ok |-> TRUE, s |-> r.s]
        ELSE [l |-> r.l, ok |-> FALSE, s |-> <<"Unterminated string literal">>]

read_char_literal(l0) ==
    LET l1 == read_char(l0)
        r == IF l1.ch = "\\"
             THEN LET l2 == read_char(l1)
                  IN  [l |-> read_char(l2), ok |-> TRUE, s |-> as_char(escaped_char(l2.ch))]
             ELSE IF l1.ch # NUL /\ l1.ch # "'"
                  THEN [l |-> read_char(l1), ok |-> TRUE, s |-> as_char(l1.ch)]
                  ELSE [l |-> l1, ok |-> FALSE, s |-> <<"Empty or invalid char literal">>]
    IN  IF ~r.ok THEN r
        ELSE IF r.l.ch = "'"
             THEN [l |-> read_char(r.l), ok |-> TRUE, s |-> r.s]
             ELSE [l |-> r.l, ok |-> FALSE, s |-> <<"Unterminated char literal">>]

\* A token at the position where the current token started.
Tok(l, token_type, literal) ==
    Token_new(token_type, literal, l.token_start_line, l.token_start_column)

\* What next_token gives once the lexer has panicked: nothing is observed of it.
FaultToken(l) == [l |-> [l EXCEPT !.fault = TRUE], tok |-> Tok(l, "Eof", <<>>)]

\* multi_word_loop with a rewind that puts back the offset and the current
\* byte but not the line and the column.
multi_word_loop_keeps_line(l, literal, token_type) ==
    LET saved == l
        l2 == call("skip_whitespace", <<l>>)
    IN  IF is_identifier_char_panics(l2)
        THEN [l |-> [l2 EXCEPT !.fault = TRUE], literal |-> literal, token_type |-> token_type]
        ELSE IF is_identifier_char(l2)
        THEN LET next_word == read_identifier(l2)
                 candidate == literal \o <<" ">> \o next_word.s
                 candidate_type == call("lookup_ident", <<candidate>>)
             IN  IF next_word.l.fault
                 THEN [l |-> next_word.l, literal |-> literal, token_type |-> token_type]
                 ELSE IF candidate_type # "Ident"
                 THEN call("multi_word_loop", <<next_word.l, candidate, candidate_type>>)
                 ELSE [l |-> [next_word.l EXCEPT !.position = saved.position,
                                                !.read_position = saved.read_position,
                                                !.ch = saved.ch],
                       literal |-> literal, token_type |-> token_type]
        ELSE [l |-> l2, literal |-> literal, token_type |-> token_type]

\* The loop of the identifier arm: extend the word read so far by a following
\* word while the two together are a keyword, otherwise rewind.
multi_word_loop(l, literal, token_type) ==
    LET saved == l
        l2 == call("skip_whitespace", <<l>>)
    IN  IF is_identifier_char_panics(l2)
        THEN [l |-> [l2 EXCEPT !.fault = TRUE], literal |-> literal, token_type |-> token_type]
        ELSE IF is_identifier_char(l2)
        THEN LET next_word == read_identifier(l2)
                 candidate == literal \o <<" ">> \o next_word.s
                 candidate_type == call("lookup_ident", <<candidate>>)
             IN  IF next_word.l.fault
                 THEN [l |-> next_word.l, literal |-> literal, token_type |-> token_type]
                 ELSE IF candidate_type # "Ident"
                 THEN call("multi_word_loop", <<next_word.l, candidate, candidate_type>>)
                 ELSE [l |-> [next_word.l EXCEPT !.position = saved.position,
                                                !.read_position = saved.read_position,
                                                !.ch = saved.ch,
                                                !.line = saved.line,
                                                !.column = saved.column],
                       literal |-> literal, token_type |-> token_type]
        ELSE [l |-> l2, literal |-> literal, token_type |-> token_type]

\* The identifier arm of next_token, up to the token it builds.
identifier_arm(l) ==
    LET first_word == read_identifier(l)
        r == call("multi_word_loop", <<first_word.l, first_word.s, call("lookup_ident", <<first_word.s>>)>>)
    IN  IF first_word.l.fault THEN FaultToken(first_word.l)
        ELSE IF r.l.fault THEN FaultToken(r.l)
        ELSE [l |-> r.l, tok |-> Tok(r.l, r.token_type, r.literal)]

\* The match on self.ch, without the read_char that follows it; done is TRUE
\* for the arms that return from next_token themselves.
match_ch(l) ==
    LET one(tt) == [l |-> l, tok |-> Tok(l, tt, <<l.ch>>), done |-> FALSE]
        two(tt) == [l |-> read_char(l), tok |-> Tok(l, tt, <<l.ch, peek_char(l)>>), done |-> FALSE]
        ret(r, tt) == [l |-> r.l, tok |-> Tok(l, IF r.ok THEN tt ELSE "Illegal", r.s),
                       done |-> TRUE]
    IN  CASE l.ch = "=" -> IF peek_char(l) = "=" THEN two("Eq") ELSE one("Assign")
          [] l.ch = ";" -> one("Semicolon")
          [] l.ch = "(" -> one("LParen")
          [] l.ch = ")" -> one("RParen")
          [] l.ch = "," -> one("Comma")
          [] l.ch = "+" -> one("Plus")
          [] l.ch = "-" -> one("Minus")
          [] l.ch = "!" -> IF peek_char(l) = "=" THEN two("NotEq") ELSE one("Bang")
          [] l.ch = "/" -> one("Slash")
          [] l.ch = "*" -> one("Asterisk")
          [] l.ch = "'" -> ret(call("read_char_literal", <<l>>), "Char")
          [] l.ch = "<" -> IF peek_char(l) = "<" THEN two("ShiftLeft") ELSE one("Lt")
          [] l.ch = ">" -> IF peek_char(l) = ">" THEN two("ShiftRight") ELSE one("Gt")
          [] l.ch = "{" -> one("LBrace")
          [] l.ch = "}" -> one("RBrace")
          [] l.ch = "\"" -> ret(call("read_string", <<l>>), "String")
          [] l.ch = "." -> one("Fullstop")
          [] OTHER ->
               IF is_identifier_char_panics(l) THEN FaultToken(l) @@ [done |-> TRUE]
               ELSE IF is_identifier_char(l) THEN call("identifier_arm", <<l>>) @@ [done |-> FALSE]
               ELSE IF is_ascii_digit(l.ch)
               THEN LET r == read_number(l)
                    IN  [l |-> r.l, tok |-> Tok(l, r.token_type, r.s), done |-> TRUE]
               ELSE IF l.ch = NUL THEN [l |-> l, tok |-> Tok(l, "Eof", <<>>), done |-> FALSE]
               ELSE [l |-> l, tok |-> Tok(l, "Illegal", as_char(l.ch)), done |-> FALSE]

Lexer_next_token(l0) ==
    LET l1 == call("skip_whitespace", <<l0>>)
        l == [l1 EXCEPT !.token_start_line = l1.line, !.token_start_column = l1.column]
        \* a block comment opened by n bytes: skip it, then scan on or report it
        block(n, start, end) ==
            LET r == skip_multi_line_comment(call("read_chars", <<l, n>>), start, end)
            IN  IF r.err # <<>>
                THEN [l |-> r.l, tok |-> Tok(l, "Illegal", r.err)]
                ELSE call("Lexer_next_token", <<r.l>>)
        line(n) == call("Lexer_next_token", <<call("skip_single_line_comment", <<call("read_chars", <<l, n>>)>>)>>)
        token ==
            LET m == call("match_ch", <<l>>)
            IN  IF m.done \/ m.l.fault
                THEN [l |-> m.l, tok |-> m.tok]
                ELSE [l |-> read_char(m.l), tok |-> m.tok]
    IN  IF l0.fault THEN FaultToken(l0)
        ELSE IF l.ch = "/"
        THEN IF peek_char(l) = "/" THEN line(2)
             ELSE IF peek_char(l) = "*" THEN block(2, "/*", <<"*", "/">>)
             ELSE token
        ELSE IF l.ch = "#" THEN line(1)
        ELSE IF l.ch = "-" /\ peek_char(l) = "-" THEN line(2)
        ELSE IF l.ch = "="
        THEN IF call("peek_n_chars_panics", <<l, 5>>) THEN FaultToken(l)
             ELSE IF peek_n_chars(l, 5) = <<"b", "e", "g", "i", "n">>
             THEN block(6, "=begin", <<"=", "e", "n", "d">>)
             ELSE token
        ELSE IF l.ch = "{" /\ peek_char(l) = "-" THEN block(2, "{-", <<"-", "}">>)
        ELSE IF l.ch = "(" /\ peek_char(l) = "*" THEN block(2, "(*", <<"*", ")">>)
        ELSE IF l.ch = "\""
        THEN IF call("peek_n_chars_panics", <<l, 2>>) THEN FaultToken(l)
             ELSE IF peek_n_chars(l, 2) = <<"\"", "\"">>
             THEN block(3, "\"\"\"", <<"\"", "\"", "\"">>)
             ELSE token
        ELSE IF l.ch = "'"
        THEN IF call("peek_n_chars_panics", <<l, 2>>) THEN FaultToken(l)
             ELSE IF peek_n_chars(l, 2) = <<"'", "'">>
             THEN block(3, "'''", <<"'", "'", "'">>)
             ELSE token
        ELSE token

\* ------------------------------------------------------------------ ast.rs

Identifier(name) == [e |-> "Identifier", name |-> name]

IntegerLiteral(value) == [e |-> "IntegerLiteral", value |-> value]

StringLiteral(value) == [e |-> "StringLiteral", value |-> value]

BooleanLiteral(value) == [e |-> "Boolean", value |-> value]

Prefix(operator, right) == [e |-> "Prefix", operator |-> operator, right |-> right]

Infix(left, operator, right) ==
    [e |-> "Infix", left |-> left, operator |-> operator, right |-> right]

\* alternative is an Option: <<>> or <<expression>>.
If(condition, consequence, alternative) ==
    [e |-> "If", condition |-> condition, consequence |-> consequence,
     alternative |-> alternative]

FunctionLiteral(parameters, body) ==
    [e |-> "FunctionLiteral", parameters |-> parameters, body |-> body]

Call(function, arguments) == [e |-> "Call", function |-> function, arguments |-> arguments]

TemplateLiteral(parts) == [e |-> "TemplateLiteral", parts |-> parts]

Let(name, value) == [s |-> "Let", name |-> name, value |-> value]

Return(return_value) == [s |-> "Return", return_value |-> return_value]

ExpressionStatement(expression) == [s |-> "ExpressionStatement", expression |-> expression]

While(condition, body) == [s |-> "While", condition |-> condition, body |-> body]

\* init, condition and update are Options: <<>> or <<x>>.
For(init, condition, update, body) ==
    [s |-> "For", init |-> init, condition |-> condition, update |-> update, body |-> body]

Break == [s |-> "Break"]

Continue == [s |-> "Continue"]

\* ------------------------------------------------------------------ parser.rs

LOWEST == 0
EQUALS == 1
LESSGREATER == 2
SUM == 3
PRODUCT == 4
PREFIX == 5
CALL == 6

None(p) == [p |-> p, r |-> <<>>]

Some(p, v) == [p |-> p, r |-> <<v>>]

push_error(p, msg) == [p EXCEPT !.errors = Append(p.errors, msg)]

Parser_next_token(p) ==
    LET r == call("Lexer_next_token", <<p.lexer>>)
    IN  [p EXCEPT !.cur_token = p.peek_token, !.peek_token = r.tok, !.lexer = r.l]

Parser_new(lexer) ==
    Parser_next_token(Parser_next_token(
        [lexer |-> lexer,
         cur_token |-> Token_new("Illegal", <<>>, 0, 0),
         peek_token |-> Token_new("Illegal", <<>>, 0, 0),
         errors |-> <<>>]))

cur_token_is(p, t) == p.cur_token.token_type = t

peek_token_is(p, t) == p.peek_token.token_type = t

peek_error(p, t) ==
    push_error(p, <<"expected next token to be ", t, ", got ", p.peek_token.token_type,
                    " instead">>)

expect_peek(p, t) ==
    IF peek_token_is(p, t)
    THEN [p |-> Parser_next_token(p), ok |-> TRUE]
    ELSE [p |-> peek_error(p, t), ok |-> FALSE]

no_prefix_parse_fn_error(p, t) ==
    push_error(p, <<"no prefix parse function for ", t, " found">>)

\* get_precedence with the product row lost: * and / bind like + and -.
get_precedence_no_product(t) ==
    CASE t \in {"Eq", "NotEq"} -> EQUALS
      [] t \in {"Lt", "Gt"} -> LESSGREATER
      [] t \in {"Plus", "Minus", "Slash", "Asterisk"} -> SUM
      [] t = "LParen" -> CALL
      [] t \in {"Ebong", "Othoba"} -> EQUALS
      [] OTHER -> LOWEST

get_precedence(t) ==
    CASE t \in {"Eq", "NotEq"} -> EQUALS
      [] t \in {"Lt", "Gt"} -> LESSGREATER
      [] t \in {"Plus", "Minus"} -> SUM
      [] t \in {"Slash", "Asterisk"} -> PRODUCT
      [] t = "LParen" -> CALL
      [] t = "Ebong" -> EQUALS
      [] t = "Othoba" -> EQUALS
      [] OTHER -> LOWEST

peek_precedence(p) == get_precedence(p.peek_token.token_type)

cur_precedence(p) == get_precedence(p.cur_token.token_type)

\* The token kinds Parser::new registers a prefix, respectively infix, handler for.
prefix_parse_fns ==
    {"Ident", "Int", "String", "Bang", "Minus", "Ha", "Na", "Jodi", "Dekhao", "LParen",
     "Function", "InputNao"}

infix_parse_fns ==
    {"Plus", "Minus", "Slash", "Asterisk", "Eq", "NotEq", "Lt", "Gt", "Ebong", "Othoba",
     "LParen"}

RECURSIVE digits_value(_, _)
digits_value(s, acc) ==
    IF s = <<>> THEN acc
    ELSE digits_value(Tail(s),
                      10 * acc + (CHOOSE d \in 0..9 : DigitChars[d + 1] = Head(s)))

\* str::parse::<i64> on the literal of a token: an Option.  The literal of an
\* Int token is a run of digits; more digits than an i64 holds are not modelled.
parse_i64(s) ==
    IF s # <<>> /\ \A i \in DOMAIN s : is_ascii_digit(s[i])
    THEN <<digits_value(s, 0)>>
    ELSE <<>>

parse_identifier(p) == Some(p, Identifier(p.cur_token.literal))

parse_integer_literal(p) ==
    IF call("parse_i64", <<p.cur_token.literal>>) # <<>>
    THEN Some(p, IntegerLiteral(call("parse_i64", <<p.cur_token.literal>>)[1]))
    ELSE None(push_error(p, <<"could not parse ">> \o p.cur_token.literal \o <<" as integer">>))

parse_string_literal(p) == Some(p, StringLiteral(p.cur_token.literal))

parse_boolean(p) == Some(p, BooleanLiteral(p.cur_token.token_type = "Ha"))

RECURSIVE accept_optional_keywords(_, _)
accept_optional_keywords(p, keywords) ==
    IF p.peek_token.token_type \in keywords
    THEN accept_optional_keywords(Parser_next_token(p), keywords)
    ELSE p

\* The optional trailing semicolon of a statement.
skip_semicolon(p) == IF peek_token_is(p, "Semicolon") THEN Parser_next_token(p) ELSE p

parse_let_statement(p0) ==
    LET e1 == call("expect_peek", <<p0, "Ident">>)
        name == Identifier(e1.p.cur_token.literal)
        e2 == call("expect_peek", <<e1.p, "Assign">>)
        v == call("parse_expression", <<Parser_next_token(e2.p), LOWEST>>)
    IN  IF ~e1.ok THEN None(e1.p)
        ELSE IF ~e2.ok THEN None(e2.p)
        ELSE IF v.r = <<>> THEN None(v.p)
        ELSE Some(skip_semicolon(v.p), Let(name, v.r[1]))

parse_return_statement(p0) ==
    LET v == call("parse_expression", <<Parser_next_token(p0), LOWEST>>)
    IN  IF v.r = <<>> THEN None(v.p)
        ELSE Some(skip_semicolon(v.p), Return(v.r[1]))

parse_expression_statement(p0) ==
    LET v == call("parse_expression", <<p0, LOWEST>>)
    IN  IF v.r = <<>> THEN None(v.p)
        ELSE Some(skip_semicolon(v.p), ExpressionStatement(v.r[1]))

parse_statement(p) ==
    CASE p.cur_token.token_type = "Dhoro" -> call("parse_let_statement", <<p>>)
      [] p.cur_token.token_type = "ReturnKoro" -> call("parse_return_statement", <<p>>)
      [] OTHER -> call("parse_expression_statement", <<p>>)

parse_expression_loop(p, precedence, left_exp) ==
    IF ~peek_token_is(p, "Semicolon") /\ precedence < peek_precedence(p)
    THEN IF p.peek_token.token_type \notin infix_parse_fns
         THEN Some(p, left_exp)
         ELSE LET r == call("infix_fn", <<p.peek_token.token_type, Parser_next_token(p), left_exp>>)
              IN  IF r.r = <<>> THEN None(r.p)
                  ELSE call("parse_expression_loop", <<r.p, precedence, r.r[1]>>)
    ELSE Some(p, left_exp)

parse_expression(p, precedence) ==
    IF p.cur_token.token_type \notin prefix_parse_fns
    THEN None(no_prefix_parse_fn_error(p, p.cur_token.token_type))
    ELSE LET left == call("prefix_fn", <<p.cur_token.token_type, p>>)
         IN  IF left.r = <<>> THEN None(left.p)
             ELSE call("parse_expression_loop", <<left.p, precedence, left.r[1]>>)

parse_prefix_expression(p0) ==
    LET operator == p0.cur_token.literal
        right == call("parse_expression", <<Parser_next_token(p0), PREFIX>>)
    IN  IF right.r = <<>> THEN None(right.p)
        ELSE Some(right.p, Prefix(operator, right.r[1]))

parse_grouped_expression(p0) ==
    LET exp == call("parse_expression", <<Parser_next_token(p0), LOWEST>>)
        e == call("expect_peek", <<exp.p, "RParen">>)
    IN  IF ~e.ok THEN None(e.p) ELSE [p |-> e.p, r |-> exp.r]

parse_template_literal_loop(p, parts) ==
    IF ~cur_token_is(p, "RBrace") /\ ~cur_token_is(p, "Eof")
    THEN CASE p.cur_token.token_type = "LParen" ->
                LET expr == call("parse_expression", <<Parser_next_token(p), LOWEST>>)
                    e == call("expect_peek", <<expr.p, "RParen">>)
                IN  IF expr.r = <<>> THEN None(expr.p)
                    ELSE IF ~e.ok THEN None(e.p)
                    ELSE call("parse_template_literal_loop", <<Parser_next_token(e.p),
                                                     Append(parts, expr.r[1])>>)
           [] p.cur_token.token_type \in {"Ident", "String", "Int"} ->
                call("parse_template_literal_loop", <<Parser_next_token(p),
                    Append(parts, StringLiteral(p.cur_token.literal))>>)
           [] OTHER -> call("parse_template_literal_loop", <<Parser_next_token(p), parts>>)
    ELSE Some(p, parts)

parse_template_literal(p) == call("parse_template_literal_loop", <<Parser_next_token(p), <<>>>>)

dekhao == <<"d", "e", "k", "h", "a", "o">>

parse_print_expression(p0) ==
    LET p == Parser_next_token(p0)
        expr == CASE p.cur_token.token_type = "LParen" -> call("parse_grouped_expression", <<p>>)
                  [] p.cur_token.token_type = "LBrace" ->
                       LET t == parse_template_literal(p)
                       IN  IF t.r = <<>> THEN t ELSE Some(t.p, TemplateLiteral(t.r[1]))
                  [] OTHER -> call("parse_expression", <<p, LOWEST>>)
    IN  IF expr.r = <<>> THEN None(expr.p)
        ELSE Some(expr.p, Call(Identifier(dekhao), <<expr.r[1]>>))

parse_block_statement_loop(p, statements) ==
    IF ~cur_token_is(p, "RBrace") /\ ~cur_token_is(p, "Eof")
    THEN LET stmt == parse_statement(p)
         IN  call("parse_block_statement_loop", <<Parser_next_token(stmt.p), statements \o stmt.r>>)
    ELSE Some(p, statements)

parse_block_statement(p) == call("parse_block_statement_loop", <<Parser_next_token(p), <<>>>>)

\* What unwrap_or_else puts in the place of a statement that did not parse.
placeholder_statement == ExpressionStatement(BooleanLiteral(FALSE))

\* The consequence of an If: a block, or a single statement.
parse_consequence(p) ==
    IF peek_token_is(p, "LBrace")
    THEN parse_block_statement(Parser_next_token(p))
    ELSE LET stmt == parse_statement(Parser_next_token(p))
         IN  IF stmt.r = <<>>
             THEN Some(push_error(stmt.p, <<"Expected statement after jodi consequence">>),
                       <<placeholder_statement>>)
             ELSE Some(stmt.p, <<stmt.r[1]>>)

\* The part of an If after an else keyword, which is the current token: r is an
\* Option of the alternative, itself an Option.
parse_alternative(p0) ==
    LET p == IF peek_token_is(p0, "Comma") THEN Parser_next_token(p0) ELSE p0
    IN  IF peek_token_is(p, "Jodi")
        THEN LET expr == call("parse_if_expression", <<Parser_next_token(p)>>)
             IN  IF expr.r # <<>> THEN Some(expr.p, <<expr.r[1]>>)
                 ELSE None(push_error(expr.p, <<"Failed to parse else if expression">>))
        ELSE IF peek_token_is(p, "LBrace")
        THEN LET stmts == parse_block_statement(Parser_next_token(p))
             IN  IF stmts.r = <<>> THEN None(stmts.p)
                 ELSE IF stmts.r[1] = <<>> THEN Some(stmts.p, <<>>)
                 ELSE IF stmts.r[1][1].s = "ExpressionStatement"
                 THEN Some(stmts.p, <<stmts.r[1][1].expression>>)
                 ELSE None(push_error(stmts.p,
                                      <<"Expected expression statement inside else block">>))
        ELSE LET parsed == parse_statement(Parser_next_token(p))
                 q == IF parsed.r = <<>>
                      THEN push_error(parsed.p, <<"Expected statement after else part">>)
                      ELSE parsed.p
                 stmt == IF parsed.r = <<>> THEN placeholder_statement ELSE parsed.r[1]
             IN  IF stmt.s = "ExpressionStatement"
                 THEN Some(q, <<stmt.expression>>)
                 ELSE None(push_error(q, <<"Expected expression statement in else part">>))

parse_if_expression(p0) ==
    LET condition == call("parse_logical_expression", <<Parser_next_token(p0), LOWEST>>)
        consequence ==
            call("parse_consequence", <<accept_optional_keywords(condition.p, {"Hoy", "Tahole", "Comma"})>>)
        alternative ==
            IF peek_token_is(consequence.p, "Nahoy")
            THEN call("parse_alternative", <<Parser_next_token(consequence.p)>>)
            ELSE Some(consequence.p, <<>>)
    IN  IF condition.r = <<>> THEN None(condition.p)
        ELSE IF consequence.r = <<>> THEN None(consequence.p)
        ELSE IF alternative.r = <<>> THEN None(alternative.p)
        ELSE Some(alternative.p, If(condition.r[1], consequence.r[1], alternative.r[1]))

parse_logical_expression_loop(p, precedence, left_exp) ==
    IF ~peek_token_is(p, "Semicolon") /\ precedence < peek_precedence(p)
    THEN IF \/ p.peek_token.token_type \notin infix_parse_fns
            \/ p.peek_token.token_type \notin
                 {"Ebong", "Othoba", "Eq", "NotEq", "Lt", "Gt", "LtEq", "GtEq",
                  "Plus", "Minus", "Asterisk", "Slash"}
         THEN Some(p, left_exp)
         ELSE LET r == call("infix_fn", <<p.peek_token.token_type, Parser_next_token(p), left_exp>>)
              IN  IF r.r = <<>> THEN None(r.p)
                  ELSE call("parse_logical_expression_loop", <<r.p, precedence, r.r[1]>>)
    ELSE Some(p, left_exp)

parse_logical_expression(p, precedence) ==
    IF p.cur_token.token_type \notin prefix_parse_fns
    THEN None(p)
    ELSE LET left == call("prefix_fn", <<p.cur_token.token_type, p>>)
         IN  IF left.r = <<>> THEN None(left.p)
             ELSE call("parse_logical_expression_loop", <<left.p, precedence, left.r[1]>>)

parse_function_parameters_loop(p, identifiers) ==
    IF peek_token_is(p, "Comma")
    THEN LET q == Parser_next_token(Parser_next_token(p))
         IN  call("parse_function_parameters_loop", <<q, Append(identifiers,
                                                      Identifier(q.cur_token.literal))>>)
    ELSE [p |-> p, identifiers |-> identifiers]

parse_function_parameters(p0) ==
    IF peek_token_is(p0, "RParen")
    THEN Some(Parser_next_token(p0), <<>>)
    ELSE LET p == Parser_next_token(p0)
             l == call("parse_function_parameters_loop", <<p, <<Identifier(p.cur_token.literal)>>>>)
             e == call("expect_peek", <<l.p, "RParen">>)
         IN  IF ~e.ok THEN None(e.p) ELSE Some(e.p, l.identifiers)

parse_function_literal(p0) ==
    LET e1 == call("expect_peek", <<p0, "LParen">>)
        parameters == call("parse_function_parameters", <<e1.p>>)
        e2 == call("expect_peek", <<parameters.p, "RParen">>)
        e3 == call("expect_peek", <<e2.p, "LBrace">>)
        body == parse_block_statement(e3.p)
    IN  IF ~e1.ok THEN None(e1.p)
        ELSE IF parameters.r = <<>> THEN None(parameters.p)
        ELSE IF ~e2.ok THEN None(e2.p)
        ELSE IF ~e3.ok THEN None(e3.p)
        ELSE IF body.r = <<>> THEN None(body.p)
        ELSE Some(body.p, FunctionLiteral(parameters.r[1], body.r[1]))

parse_infix_expression(p0, left) ==
    LET operator == p0.cur_token.literal
        precedence == cur_precedence(p0)
        right == call("parse_expression", <<Parser_next_token(p0), precedence>>)
    IN  IF right.r = <<>> THEN None(right.p)
        ELSE Some(right.p, Infix(left, operator, right.r[1]))

parse_call_arguments_loop(p, args) ==
    IF peek_token_is(p, "Comma")
    THEN LET exp == call("parse_expression", <<Parser_next_token(Parser_next_token(p)), LOWEST>>)
         IN  call("parse_call_arguments_loop", <<exp.p, args \o exp.r>>)
    ELSE [p |-> p, args |-> args]

parse_call_arguments(p0) ==
    IF peek_token_is(p0, "RParen")
    THEN Some(Parser_next_token(p0), <<>>)
    ELSE LET first == call("parse_expression", <<Parser_next_token(p0), LOWEST>>)
             l == call("parse_call_arguments_loop", <<first.p, first.r>>)
             e == call("expect_peek", <<l.p, "RParen">>)
         IN  IF ~e.ok THEN None(e.p) ELSE Some(e.p, l.args)

parse_call_expression(p, function) ==
    LET arguments == call("parse_call_arguments", <<p>>)
    IN  IF arguments.r = <<>> THEN None(arguments.p)
        ELSE Some(arguments.p, Call(function, arguments.r[1]))

parse_input_expression(p0) ==
    LET function_name == p0.cur_token.literal
        e == call("expect_peek", <<p0, "LParen">>)
        args == call("parse_call_arguments", <<e.p>>)
    IN  IF ~e.ok
        THEN None(push_error(e.p, <<"expected '(' after '">> \o function_name \o <<"'">>))
        ELSE IF args.r = <<>> THEN None(args.p)
        ELSE Some(args.p, Call(Identifier(function_name), args.r[1]))

\* The handler the prefix table holds for the token kind t.
prefix_fn(t, p) ==
    CASE t = "Ident" -> parse_identifier(p)
      [] t = "Int" -> call("parse_integer_literal", <<p>>)
      [] t = "String" -> parse_string_literal(p)
      [] t \in {"Bang", "Minus"} -> call("parse_prefix_expression", <<p>>)
      [] t \in {"Ha", "Na"} -> parse_boolean(p)
      [] t = "Jodi" -> call("parse_if_expression", <<p>>)
      [] t = "Dekhao" -> call("parse_print_expression", <<p>>)
      [] t = "LParen" -> call("parse_grouped_expression", <<p>>)
      [] t = "Function" -> call("parse_function_literal", <<p>>)
      [] t = "InputNao" -> call("parse_input_expression", <<p>>)

\* The handler the infix table holds for the token kind t.
infix_fn(t, p, left) ==
    IF t = "LParen" THEN parse_call_expression(p, left) ELSE call("parse_infix_expression", <<p, left>>)

parse_program_loop(p, program) ==
    IF p.cur_token.token_type # "Eof"
    THEN LET stmt == parse_statement(p)
         IN  call("parse_program_loop", <<Parser_next_token(stmt.p), program \o stmt.r>>)
    ELSE [p |-> p, program |-> program]

\* The pass without the next_token that ends it.
parse_program_pass_no_next_token(p) ==
    LET stmt == parse_statement(p)
    IN  [p |-> stmt.p, r |-> stmt.r]

\* One pass through the loop of parse_program: parse_statement, push, next_token.
parse_program_pass(p) ==
    LET stmt == parse_statement(p)
    IN  [p |-> Parser_next_token(stmt.p), r |-> stmt.r]

parse_program(p) == call("parse_program_loop", <<p, <<>>>>)

\* ------------------------------------------------------------------ object.rs

Integer(value) == [t |-> "Integer", value |-> value]

Boolean(value) == [t |-> "Boolean", value |-> value]

String(value) == [t |-> "String", value |-> value]

Null == [t |-> "Null"]

ReturnValue(value) == [t |-> "ReturnValue", value |-> value]

\* A native function pointer, told apart by the name it is registered under.
BuiltinNative(name) == [t |-> "BuiltinNative", name |-> name]

Error(msg) == [t |-> "Error", msg |-> msg]

Function(parameters, body, env) ==
    [t |-> "Function", parameters |-> parameters, body |-> body, env |-> env]

\* A panic unwinding through the evaluator: not an Object, the absence of one.
Panic == [t |-> "Panic"]

\* The evaluation did not end within MaxSteps loop iterations and calls.
Running == [t |-> "Running"]

\* No value comes back from the callee: every caller up to the driver stops.
unwinds(obj) == obj.t \in {"Panic", "Running"}

RECURSIVE nat_to_string(_)
nat_to_string(n) ==
    IF n < 10 THEN <<DigitChars[n + 1]>>
    ELSE Append(nat_to_string(n \div 10), DigitChars[(n % 10) + 1])

\* i64::to_string
to_string(i) == IF i < 0 THEN <<"-">> \o nat_to_string(-i) ELSE nat_to_string(i)

\* format!("{:?}", obj), written out for the scalar values; the derived Debug
\* text of the other values is abbreviated to the name of the variant.
Debug(obj) ==
    CASE obj.t = "Integer" -> <<"Integer(">> \o call("to_string", <<obj.value>>) \o <<")">>
      [] obj.t = "Boolean" -> <<"Boolean(", IF obj.value THEN "true" ELSE "false", ")">>
      [] obj.t = "String" -> <<"String(\"">> \o obj.value \o <<"\")">>
      [] obj.t = "Null" -> <<"Null">>
      [] OTHER -> <<obj.t>>

\* format!("{}", obj); a parameter of a function is shown by its name.
Display(obj) ==
    CASE obj.t = "Integer" -> call("to_string", <<obj.value>>)
      [] obj.t = "Boolean" -> IF obj.value THEN <<"Ha">> ELSE <<"Na">>
      [] obj.t = "String" -> obj.value
      [] obj.t = "Null" -> <<"null">>
      [] obj.t = "ReturnValue" -> call("Display", <<obj.value>>)
      [] obj.t = "Error" -> <<"Error: ">> \o obj.msg
      [] obj.t = "Function" ->
           <<"fn(">> \o join([i \in DOMAIN obj.parameters |-> obj.parameters[i].name], <<", ">>)
           \o <<") { ... }">>
      [] OTHER -> <<"[native builtin function]">>

\* ------------------------------------------------------------------ environment.rs

BuiltinNames ==
    { dekhao,
      <<"i","n","p","u","t">>,
      <<"s","h","o","m","o","y">>,
      <<"r","e","a","d","k","o","r","o">>,
      <<"w","r","i","t","e","k","o","r","o">>,
      <<"s","h","u","r","u","_","k","o","r","o">>,
      <<"b","o","n","d","h","o","_","k","o","r","o">>,
      <<"e","x","i","t","k","o","r","o">> }

\* HashMap::new()
EmptyStore == [n \in {} |-> Null]

Environment_new == [store |-> [n \in BuiltinNames |-> BuiltinNative(n)], outer |-> <<>>]

\* new_enclosed that drops the environment it is to enclose.
new_enclosed_detached(outer) == [store |-> EmptyStore, outer |-> <<>>]

new_enclosed(outer) == [store |-> EmptyStore, outer |-> <<outer>>]

RECURSIVE Environment_get(_, _)
\* An Option: <<>> or <<object>>.
Environment_get(env, name) ==
    IF name \in DOMAIN env.store THEN <<env.store[name]>>
    ELSE IF env.outer = <<>> THEN <<>>
    ELSE Environment_get(env.outer[1], name)

Environment_set(env, name, val) ==
    [env EXCEPT !.store = [n \in DOMAIN env.store \cup {name} |->
                              IF n = name THEN val ELSE env.store[n]]]

\* The native functions of the root environment.  dekhao prints its one
\* argument; the two messages print and nothing else; the others read the
\* clock, the terminal or the file system, or end the process, and the
\* model's programs do not call them.
native_call(name, args, out) ==
    CASE name = dekhao ->
           IF Len(args) # 1
           THEN [v |-> Error(<<"wrong number of arguments. got=">> \o call("to_string", <<Len(args)>>)
                             \o <<", want=1">>),
                 out |-> out]
           ELSE [v |-> Null, out |-> Append(out, call("Display", <<args[1]>>))]
      [] name = <<"s","h","u","r","u","_","k","o","r","o">> ->
           [v |-> Null, out |-> Append(out, <<"restart">>)]
      [] name = <<"b","o","n","d","h","o","_","k","o","r","o">> ->
           [v |-> Null, out |-> Append(out, <<"Program bondho kora holo. Dhonnobad!">>)]
      [] OTHER -> [v |-> Error(<<"native function outside the model">>), out |-> out]

\* ------------------------------------------------------------------ evaluator.rs

\* The evaluator's mutable surroundings: the environment it was handed (&mut)
\* and the lines written to standard output so far; steps is what is left of
\* MaxSteps.
Ctx(env, out, steps) == [env |-> env, out |-> out, steps |-> steps]

Val(v, c) == [v |-> v, c |-> c]

\* is_truthy that takes Integer(0) for false.
is_truthy_zero_false(obj) ==
    CASE obj.t = "Boolean" -> obj.value
      [] obj.t = "Null" -> FALSE
      [] obj.t = "Integer" -> obj.value # 0
      [] obj.t = "String" /\ obj.value = <<"H", "a">> -> TRUE
      [] obj.t = "String" /\ obj.value = <<"N", "a">> -> FALSE
      [] OTHER -> TRUE

is_truthy(obj) ==
    CASE obj.t = "Boolean" -> obj.value
      [] obj.t = "Null" -> FALSE
      [] obj.t = "String" /\ obj.value = <<"H", "a">> -> TRUE
      [] obj.t = "String" /\ obj.value = <<"N", "a">> -> FALSE
      [] OTHER -> TRUE

\* is_error that takes no value for an Error.
is_error_never(obj) == FALSE

is_error(obj) == obj.t = "Error"

format_boolean(obj) ==
    IF obj.t = "Boolean"
    THEN IF obj.value THEN String(<<"H", "a">>) ELSE String(<<"N", "a">>)
    ELSE obj

eval_bang_operator_expression(right) ==
    CASE right.t = "Boolean" -> Boolean(~right.value)
      [] right.t = "String" /\ right.value = <<"H", "a">> -> Boolean(FALSE)
      [] right.t = "String" /\ right.value = <<"N", "a">> -> Boolean(TRUE)
      [] right.t = "Null" -> Boolean(TRUE)
      [] OTHER -> Boolean(FALSE)

eval_minus_prefix_operator_expression(right) ==
    IF right.t = "Integer" THEN Integer(-right.value)
    ELSE Error(<<"unknown operator: -">> \o call("Debug", <<right>>))

eval_prefix_expression(operator, right) ==
    CASE operator = <<"!">> -> call("eval_bang_operator_expression", <<right>>)
      [] operator = <<"-">> -> eval_minus_prefix_operator_expression(right)
      [] OTHER -> Error(<<"unknown operator: ">> \o operator \o call("Debug", <<right>>))

\* An Option of a boolean: <<>> or <<b>>.
to_bool(obj) ==
    CASE obj.t = "Boolean" -> <<obj.value>>
      [] obj.t = "String" /\ obj.value = <<"H", "a">> -> <<TRUE>>
      [] obj.t = "String" /\ obj.value = <<"N", "a">> -> <<FALSE>>
      [] OTHER -> <<>>

\* The / of i64 rounds toward zero.
i64_div(l, r) ==
    IF (l < 0) = (r < 0)
    THEN (IF l < 0 THEN -l ELSE l) \div (IF r < 0 THEN -r ELSE r)
    ELSE -((IF l < 0 THEN -l ELSE l) \div (IF r < 0 THEN -r ELSE r))

\* l / r: a division by zero panics ("attempt to divide by zero").
integer_division(l, r) == IF r = 0 THEN Panic ELSE Integer(i64_div(l, r))

eval_infix_expression(operator, left, right) ==
    LET unknown == Error(<<"unknown operator: ">> \o call("Debug", <<left>>) \o <<" ">> \o operator
                         \o <<" ">> \o call("Debug", <<right>>))
    IN  IF left.t = "Integer" /\ right.t = "Integer"
        THEN CASE operator = <<"+">> -> Integer(left.value + right.value)
               [] operator = <<"-">> -> Integer(left.value - right.value)
               [] operator = <<"*">> -> Integer(left.value * right.value)
               [] operator = <<"/">> -> call("integer_division", <<left.value, right.value>>)
               [] operator = <<"<">> -> Boolean(left.value < right.value)
               [] operator = <<">">> -> Boolean(left.value > right.value)
               [] operator = <<"=", "=">> -> Boolean(left.value = right.value)
               [] operator = <<"!", "=">> -> Boolean(left.value # right.value)
               [] OTHER -> unknown
        ELSE IF left.t = "String" /\ right.t = "String"
        THEN IF operator = <<"+">>
             THEN String(left.value \o right.value)
             ELSE Error(<<"unknown operator for strings: ">> \o operator)
        ELSE IF to_bool(left) # <<>> /\ to_bool(right) # <<>>
        THEN CASE operator = <<"=", "=">> -> Boolean(to_bool(left)[1] = to_bool(right)[1])
               [] operator = <<"!", "=">> -> Boolean(to_bool(left)[1] # to_bool(right)[1])
               [] OTHER -> unknown
        ELSE Error(<<"type mismatch: ">> \o call("Debug", <<left>>) \o <<" ">> \o operator
                   \o <<" ">> \o call("Debug", <<right>>))

\* The text dekhao appends for a value; an Option, none for an Error.
dekhao_text(val) ==
    CASE val.t = "String" -> <<val.value>>
      [] val.t = "Integer" -> <<call("to_string", <<val.value>>)>>
      [] val.t = "Boolean" -> <<IF val.value THEN <<"Ha">> ELSE <<"Na">>>>
      [] val.t = "Null" -> <<<<"Null">>>>
      [] val.t = "Error" -> <<>>
      [] OTHER -> <<call("Debug", <<val>>)>>


\* eval_let without the early return on an Error.
eval_let_binds_error(name, value, c) ==
    LET val == call("eval_expression", <<value, c>>)
    IN  IF unwinds(val.v) THEN val
        ELSE IF name.e = "Identifier"
        THEN Val(Null, [val.c EXCEPT !.env = Environment_set(val.c.env, name.name, val.v)])
        ELSE Val(Null, val.c)

eval_let(name, value, c) ==
    LET val == call("eval_expression", <<value, c>>)
    IN  IF unwinds(val.v) \/ is_error(val.v) THEN val
        ELSE IF name.e = "Identifier"
        THEN Val(Null, [val.c EXCEPT !.env = Environment_set(val.c.env, name.name, val.v)])
        ELSE Val(Null, val.c)

eval_return(return_value, c) ==
    LET val == call("eval_expression", <<return_value, c>>)
    IN  IF unwinds(val.v) \/ is_error(val.v) THEN val
        ELSE Val(ReturnValue(val.v), val.c)

eval_while(condition, body, c) ==
    LET cond == call("eval_expression", <<condition, c>>)
        result == call("eval_block_statement", <<body, cond.c>>)
    IN  IF unwinds(cond.v) THEN cond
        ELSE IF ~is_truthy(cond.v) THEN Val(Null, cond.c)
        ELSE IF cond.c.steps = 0 THEN Val(Running, cond.c)
        ELSE IF unwinds(result.v) \/ result.v.t \in {"ReturnValue", "Error"} THEN result
        ELSE call("eval_while", <<condition, body, [result.c EXCEPT !.steps = @ - 1]>>)

\* eval_for_loop that evaluates the update before it looks at the body's value.
eval_for_loop_updates(condition, update, body, c) ==
    LET cond == IF condition = <<>> THEN Val(Boolean(TRUE), c)
                ELSE call("eval_expression", <<condition[1], c>>)
        result == call("eval_block_statement", <<body, cond.c>>)
        upd == IF update = <<>> THEN Val(Null, result.c)
               ELSE call("eval_expression", <<update[1], result.c>>)
    IN  IF unwinds(cond.v) THEN cond
        ELSE IF ~is_truthy(cond.v) THEN Val(Null, cond.c)
        ELSE IF cond.c.steps = 0 THEN Val(Running, cond.c)
        ELSE IF unwinds(result.v) THEN result
        ELSE IF unwinds(upd.v) \/ is_error(upd.v) THEN upd
        ELSE IF result.v.t \in {"ReturnValue", "Error"} THEN Val(result.v, upd.c)
        ELSE call("eval_for_loop", <<condition, update, body, [upd.c EXCEPT !.steps = @ - 1]>>)

eval_for_loop(condition, update, body, c) ==
    LET cond == IF condition = <<>> THEN Val(Boolean(TRUE), c)
                ELSE call("eval_expression", <<condition[1], c>>)
        result == call("eval_block_statement", <<body, cond.c>>)
        upd == IF update = <<>> THEN Val(Null, result.c)
               ELSE call("eval_expression", <<update[1], result.c>>)
    IN  IF unwinds(cond.v) THEN cond
        ELSE IF ~is_truthy(cond.v) THEN Val(Null, cond.c)
        ELSE IF cond.c.steps = 0 THEN Val(Running, cond.c)
        ELSE IF unwinds(result.v) \/ result.v.t \in {"ReturnValue", "Error"} THEN result
        ELSE IF unwinds(upd.v) \/ is_error(upd.v) THEN upd
        ELSE call("eval_for_loop", <<condition, update, body, [upd.c EXCEPT !.steps = @ - 1]>>)

eval_for(init, condition, update, body, c) ==
    LET result == IF init = <<>> THEN Val(Null, c) ELSE call("eval_statement", <<init[1], c>>)
    IN  IF unwinds(result.v) \/ is_error(result.v) THEN result
        ELSE call("eval_for_loop", <<condition, update, body, result.c>>)

eval_statement(statement, c) ==
    CASE statement.s = "ExpressionStatement" -> call("eval_expression", <<statement.expression, c>>)
      [] statement.s = "Let" -> call("eval_let", <<statement.name, statement.value, c>>)
      [] statement.s = "Return" -> eval_return(statement.return_value, c)
      [] statement.s \in {"CommentSingleLine", "CommentMultiLine"} -> Val(Null, c)
      [] statement.s = "While" -> call("eval_while", <<statement.condition, statement.body, c>>)
      [] statement.s = "For" ->
           eval_for(statement.init, statement.condition, statement.update, statement.body, c)
      [] statement.s \in {"Break", "Continue"} -> Val(Null, c)

\* eval_block_statement's loop without the early return on ReturnValue and Error.
RECURSIVE eval_block_statement_loop_on(_, _, _)
eval_block_statement_loop_on(statements, result, c) ==
    IF statements = <<>> THEN Val(result, c)
    ELSE LET r == call("eval_statement", <<Head(statements), c>>)
         IN  IF unwinds(r.v) THEN r
             ELSE eval_block_statement_loop_on(Tail(statements), r.v, r.c)

RECURSIVE eval_block_statement_loop(_, _, _)
eval_block_statement_loop(statements, result, c) ==
    IF statements = <<>> THEN Val(result, c)
    ELSE LET r == call("eval_statement", <<Head(statements), c>>)
         IN  IF unwinds(r.v) \/ r.v.t \in {"ReturnValue", "Error"} THEN r
             ELSE eval_block_statement_loop(Tail(statements), r.v, r.c)

eval_block_statement(statements, c) == eval_block_statement_loop(statements, Null, c)

\* eval_expressions that goes on behind an Error.
eval_expressions_all(exprs, result, c) ==
    IF exprs = <<>> THEN [vs |-> result, c |-> c]
    ELSE LET evaluated == call("eval_expression", <<Head(exprs), c>>)
         IN  IF unwinds(evaluated.v)
             THEN [vs |-> <<evaluated.v>>, c |-> evaluated.c]
             ELSE call("eval_expressions", <<Tail(exprs), Append(result, evaluated.v), evaluated.c>>)

eval_expressions(exprs, result, c) ==
    IF exprs = <<>> THEN [vs |-> result, c |-> c]
    ELSE LET evaluated == call("eval_expression", <<Head(exprs), c>>)
         IN  IF unwinds(evaluated.v) \/ is_error(evaluated.v)
             THEN [vs |-> <<evaluated.v>>, c |-> evaluated.c]
             ELSE call("eval_expressions", <<Tail(exprs), Append(result, evaluated.v), evaluated.c>>)

\* dekhao with a template literal: the parts, rendered one after the other.
eval_dekhao_parts(parts, output, c) ==
    IF parts = <<>> THEN Val(Null, [c EXCEPT !.out = Append(c.out, output)])
    ELSE LET val == IF Head(parts).e = "StringLiteral"
                    THEN Val(String(Head(parts).value), c)
                    ELSE call("eval_expression", <<Head(parts), c>>)
         IN  IF unwinds(val.v) \/ is_error(val.v) THEN val
             ELSE call("eval_dekhao_parts", <<Tail(parts), output \o call("dekhao_text", <<val.v>>)[1], val.c>>)

\* dekhao with ordinary arguments.
eval_dekhao_arguments(arguments, output, c) ==
    IF arguments = <<>> THEN Val(Null, [c EXCEPT !.out = Append(c.out, output)])
    ELSE LET val == call("eval_expression", <<Head(arguments), c>>)
         IN  IF unwinds(val.v) \/ is_error(val.v) THEN val
             ELSE call("eval_dekhao_arguments", <<Tail(arguments), output \o call("dekhao_text", <<val.v>>)[1], val.c>>)

RECURSIVE bind_parameters_exact(_, _, _)
\* bind_parameters that binds nothing unless there is an argument for every
\* parameter and a parameter for every argument.
bind_parameters_exact(parameters, args, env) ==
    IF Len(parameters) # Len(args) \/ parameters = <<>> THEN env
    ELSE bind_parameters_exact(Tail(parameters), Tail(args),
                               IF Head(parameters).e = "Identifier"
                               THEN Environment_set(env, Head(parameters).name, Head(args))
                               ELSE env)

RECURSIVE bind_parameters(_, _, _)
\* for (param, arg) in parameters.iter().zip(args.iter())
bind_parameters(parameters, args, env) ==
    IF parameters = <<>> \/ args = <<>> THEN env
    ELSE bind_parameters(Tail(parameters), Tail(args),
                         IF Head(parameters).e = "Identifier"
                         THEN Environment_set(env, Head(parameters).name, Head(args))
                         ELSE env)

\* The value a function call hands back for what its body evaluated to.
unwrap_return_value(evaluated) ==
    IF evaluated.t = "ReturnValue" THEN evaluated.value ELSE evaluated

\* c is the caller's: its environment stays as it is, the call's output and
\* steps are added to it.
apply_function(func, args, c) ==
    CASE func.t = "BuiltinNative" ->
           LET r == call("native_call", <<func.name, args, c.out>>)
           IN  Val(r.v, [c EXCEPT !.out = r.out])
      [] func.t = "Function" ->
           LET extended_env == bind_parameters(func.parameters, args, new_enclosed(func.env))
               evaluated == call("eval_block_statement", <<func.body,
                                                 Ctx(extended_env, c.out, c.steps - 1)>>)
               back == [c EXCEPT !.out = evaluated.c.out, !.steps = evaluated.c.steps]
           IN  IF c.steps = 0 THEN Val(Running, c)
               ELSE Val(unwrap_return_value(evaluated.v), back)
      [] OTHER -> Val(Error(<<"not a function: ">> \o call("Debug", <<func>>)), c)

eval_call(function, arguments, c) ==
    LET function_obj == call("eval_expression", <<function, c>>)
        args == call("eval_expressions", <<arguments, <<>>, function_obj.c>>)
    IN  IF unwinds(function_obj.v) \/ is_error(function_obj.v) THEN function_obj
        ELSE IF function.e = "Identifier" /\ function.name = dekhao
        THEN IF arguments # <<>> /\ arguments[1].e = "TemplateLiteral"
             THEN call("eval_dekhao_parts", <<arguments[1].parts, <<>>, function_obj.c>>)
             ELSE call("eval_dekhao_arguments", <<arguments, <<>>, function_obj.c>>)
        ELSE IF Len(args.vs) = 1 /\ (unwinds(args.vs[1]) \/ is_error(args.vs[1]))
        THEN Val(args.vs[1], args.c)
        ELSE call("apply_function", <<function_obj.v, args.vs, args.c>>)

eval_expression(expr, c) ==
    CASE expr.e = "IntegerLiteral" -> Val(Integer(expr.value), c)
      [] expr.e = "StringLiteral" -> Val(String(expr.value), c)
      [] expr.e = "Boolean" -> Val(Boolean(expr.value), c)
      [] expr.e = "Prefix" ->
           LET right == call("eval_expression", <<expr.right, c>>)
           IN  IF unwinds(right.v) \/ is_error(right.v) THEN right
               ELSE Val(call("eval_prefix_expression", <<expr.operator, right.v>>), right.c)
      [] expr.e = "Infix" ->
           LET left == call("eval_expression", <<expr.left, c>>)
               right == call("eval_expression", <<expr.right, left.c>>)
           IN  IF unwinds(left.v) \/ is_error(left.v) THEN left
               ELSE IF unwinds(right.v) \/ is_error(right.v) THEN right
               ELSE Val(call("eval_infix_expression", <<expr.operator, left.v, right.v>>), right.c)
      [] expr.e = "Identifier" ->
           IF Environment_get(c.env, expr.name) # <<>>
           THEN Val(Environment_get(c.env, expr.name)[1], c)
           ELSE Val(Error(<<"identifier not found: ">> \o expr.name), c)
      [] expr.e = "If" ->
           LET condition_obj == call("eval_expression", <<expr.condition, c>>)
           IN  IF unwinds(condition_obj.v) \/ is_error(condition_obj.v) THEN condition_obj
               ELSE IF is_truthy(condition_obj.v)
               THEN call("eval_block_statement", <<expr.consequence, condition_obj.c>>)
               ELSE IF expr.alternative # <<>>
               THEN call("eval_expression", <<expr.alternative[1], condition_obj.c>>)
               ELSE Val(Null, condition_obj.c)
      [] expr.e = "FunctionLiteral" ->
           Val(Function(expr.parameters, expr.body, c.env), c)
      [] expr.e = "Call" -> call("eval_call", <<expr.function, expr.arguments, c>>)

\* ------------------------------------------------------------------ calls

\* eval: the statements in turn, until one returns or fails.
eval_loop(node, i, result, c) ==
    IF i > Len(node) THEN Val(format_boolean(result), c)
    ELSE LET r == call("eval_statement", <<node[i], c>>)
         IN  CASE r.v.t = "ReturnValue" -> Val(format_boolean(r.v.value), r.c)
               [] r.v.t = "Error" \/ unwinds(r.v) -> r
               [] OTHER -> call("eval_loop", <<node, i + 1, r.v, r.c>>)

eval(node, c) == call("eval_loop", <<node, 1, Null, c>>)

call(f, a) ==
    CASE f = "is_ascii_alphabetic" -> is_ascii_alphabetic(a[1])
      [] f = "to_lowercase_char" -> to_lowercase_char(a[1])
      [] f = "KEYWORDS_get" -> KEYWORDS_get(a[1])
      [] f = "split_whitespace" -> split_whitespace(a[1], a[2], a[3])
      [] f = "lookup_ident" -> lookup_ident(a[1])
      [] f = "read_chars" -> read_chars(a[1], a[2])
      [] f = "Lexer_new" -> Lexer_new(a[1])
      [] f = "is_unicode_bengali_letter_panics" -> is_unicode_bengali_letter_panics(a[1])
      [] f = "skip_whitespace" -> skip_whitespace(a[1])
      [] f = "skip_single_line_comment" -> skip_single_line_comment(a[1])
      [] f = "skip_multi_line_comment_loop" -> skip_multi_line_comment_loop(a[1], a[2], a[3], a[4])
      [] f = "peek_n_chars_panics" -> peek_n_chars_panics(a[1], a[2])
      [] f = "read_identifier_loop" -> read_identifier_loop(a[1])
      [] f = "read_number_loop" -> read_number_loop(a[1], a[2], a[3], a[4], a[5])
      [] f = "read_string_loop" -> read_string_loop(a[1], a[2])
      [] f = "read_string" -> read_string(a[1])
      [] f = "read_char_literal" -> read_char_literal(a[1])
      [] f = "multi_word_loop" -> multi_word_loop(a[1], a[2], a[3])
      [] f = "identifier_arm" -> identifier_arm(a[1])
      [] f = "match_ch" -> match_ch(a[1])
      [] f = "Lexer_next_token" -> Lexer_next_token(a[1])
      [] f = "Parser_new" -> Parser_new(a[1])
      [] f = "expect_peek" -> expect_peek(a[1], a[2])
      [] f = "parse_i64" -> parse_i64(a[1])
      [] f = "parse_integer_literal" -> parse_integer_literal(a[1])
      [] f = "parse_let_statement" -> parse_let_statement(a[1])
      [] f = "parse_return_statement" -> parse_return_statement(a[1])
      [] f = "parse_expression_statement" -> parse_expression_statement(a[1])
      [] f = "parse_expression_loop" -> parse_expression_loop(a[1], a[2], a[3])
      [] f = "parse_expression" -> parse_expression(a[1], a[2])
      [] f = "parse_prefix_expression" -> parse_prefix_expression(a[1])
      [] f = "parse_grouped_expression" -> parse_grouped_expression(a[1])
      [] f = "parse_template_literal_loop" -> parse_template_literal_loop(a[1], a[2])
      [] f = "parse_print_expression" -> parse_print_expression(a[1])
      [] f = "parse_block_statement_loop" -> parse_block_statement_loop(a[1], a[2])
      [] f = "parse_consequence" -> parse_consequence(a[1])
      [] f = "parse_alternative" -> parse_alternative(a[1])
      [] f = "parse_if_expression" -> parse_if_expression(a[1])
      [] f = "parse_logical_expression_loop" -> parse_logical_expression_loop(a[1], a[2], a[3])
      [] f = "parse_logical_expression" -> parse_logical_expression(a[1], a[2])
      [] f = "parse_function_parameters_loop" -> parse_function_parameters_loop(a[1], a[2])
      [] f = "parse_function_parameters" -> parse_function_parameters(a[1])
      [] f = "parse_function_literal" -> parse_function_literal(a[1])
      [] f = "parse_infix_expression" -> parse_infix_expression(a[1], a[2])
      [] f = "parse_call_arguments_loop" -> parse_call_arguments_loop(a[1], a[2])
      [] f = "parse_call_arguments" -> parse_call_arguments(a[1])
      [] f = "parse_input_expression" -> parse_input_expression(a[1])
      [] f = "prefix_fn" -> prefix_fn(a[1], a[2])
      [] f = "infix_fn" -> infix_fn(a[1], a[2], a[3])
      [] f = "parse_program_loop" -> parse_program_loop(a[1], a[2])
      [] f = "parse_program_pass" -> parse_program_pass(a[1])
      [] f = "to_string" -> to_string(a[1])
      [] f = "Debug" -> Debug(a[1])
      [] f = "Display" -> Display(a[1])
      [] f = "native_call" -> native_call(a[1], a[2], a[3])
      [] f = "eval_bang_operator_expression" -> eval_bang_operator_expression(a[1])
      [] f = "eval_prefix_expression" -> eval_prefix_expression(a[1], a[2])
      [] f = "integer_division" -> integer_division(a[1], a[2])
      [] f = "eval_infix_expression" -> eval_infix_expression(a[1], a[2], a[3])
      [] f = "dekhao_text" -> dekhao_text(a[1])
      [] f = "eval_let" -> eval_let(a[1], a[2], a[3])
      [] f = "eval_while" -> eval_while(a[1], a[2], a[3])
      [] f = "eval_for_loop" -> eval_for_loop(a[1], a[2], a[3], a[4])
      [] f = "eval_statement" -> eval_statement(a[1], a[2])
      [] f = "eval_block_statement" -> eval_block_statement(a[1], a[2])
      [] f = "eval_expressions" -> eval_expressions(a[1], a[2], a[3])
      [] f = "eval_dekhao_parts" -> eval_dekhao_parts(a[1], a[2], a[3])
      [] f = "eval_dekhao_arguments" -> eval_dekhao_arguments(a[1], a[2], a[3])
      [] f = "apply_function" -> apply_function(a[1], a[2], a[3])
      [] f = "eval_call" -> eval_call(a[1], a[2], a[3])
      [] f = "eval_expression" -> eval_expression(a[1], a[2])
      [] f = "eval_loop" -> eval_loop(a[1], a[2], a[3], a[4])
      [] f = "eval" -> eval(a[1], a[2])

\* ------------------------------------------------------------------ bounds

\* Loop iterations and calls one statement may take before the model stops
\* following it.
MaxSteps == 6

\* The integer literals of the generated programs are 0..MaxLit.
MaxLit == 3

\* The calls of the generated programs pass 0..MaxArgs arguments.
MaxArgs == 3

\* The function literals of the generated sources have 0..MaxParams parameters.
MaxParams == 2

\* The calls of next_token a caller goes on to make once the input is used up.
MaxEofCalls == 2

\* The texts a caller of lookup_ident makes from the text it was given.
MaxEdits == 2

\* The lines the REPL reads.
MaxLines == 4

\* ------------------------------------------------------------------ inputs

Lits == 0..MaxLit

DigitOf(n) == DigitChars[n + 1]

ArithOps == {"+", "-", "*", "/"}

\* a op b op c, with and without parentheses, written without and with blanks.
ArithSources ==
    UNION {
      { <<DigitOf(a), o1, DigitOf(b), o2, DigitOf(c)>>,
        <<"(", DigitOf(a), o1, DigitOf(b), ")", o2, DigitOf(c)>>,
        <<DigitOf(a), o1, "(", DigitOf(b), o2, DigitOf(c), ")">> }
      : a \in Lits, b \in Lits, c \in Lits, o1 \in ArithOps, o2 \in ArithOps }

\* The examples of the specification: 2 + 3 * 4, (2 + 3) * 4 and 8 - 3 - 2.
ArithExamples ==
    { <<"2", " ", "+", " ", "3", " ", "*", " ", "4">>,
      <<"(", "2", " ", "+", " ", "3", ")", " ", "*", " ", "4">>,
      <<"8", " ", "-", " ", "3", " ", "-", " ", "2">> }

\* The spellings the keyword table maps to the let token.
LetKeywords == {e[1] : e \in {k \in KEYWORDS : k[2] = "Dhoro"}}

\* <let> x = 5; <let> y = x + 2; y;
LetSource(kw) ==
    kw \o <<" ", "x", " ", "=", " ", "5", ";", " ">> \o
    kw \o <<" ", "y", " ", "=", " ", "x", " ", "+", " ", "2", ";", " ", "y", ";">>

LetSources == {LetSource(kw) : kw \in LetKeywords}

\* ---- programs, as the trees parse_program hands to eval

Var(n) == Identifier(<<n>>)

Lit(n) == IntegerLiteral(n)

Stmt(e) == ExpressionStatement(e)

Add(l, r) == Infix(l, <<"+">>, r)

Div(l, r) == Infix(l, <<"/">>, r)

\* dekhao(n): an expression whose evaluation is seen, as a printed line.
Say(n) == Call(Identifier(dekhao), <<Lit(n)>>)

\* The three statements that hold one expression.
StatementsOf(e) == {Stmt(e), Let(Var("x"), e), Return(e)}

\* Expressions whose value is Integer(0).
ZeroExpressions == {Lit(0)} \cup {Infix(Lit(n), <<"-">>, Lit(n)) : n \in Lits}

DivisionsByZero == {Div(Lit(n), z) : n \in Lits, z \in ZeroExpressions}

\* A division by zero alone, inside a larger expression, and as an argument.
DivisionByZeroExpressions ==
    DivisionsByZero
    \cup {Add(Lit(2), d) : d \in DivisionsByZero}
    \cup {Prefix(<<"-">>, d) : d \in DivisionsByZero}
    \cup {Call(Identifier(dekhao), <<d>>) : d \in DivisionsByZero}

DivisionByZeroPrograms ==
    {<<s>> : s \in UNION {StatementsOf(e) : e \in DivisionByZeroExpressions}}

\* 1/0 and dekhao(1/0); the character after the word dekhao is written twice,
\* the lexer takes one of the two.
DivisionByZeroSources ==
    { <<"1", "/", "0">>,
      dekhao \o <<"(", "(", "1", "/", "0", ")">> }

\* An identifier no scope binds.
Undefined == Var("u")

\* Sub-expressions that show when they are evaluated: one prints, one faults.
Seen == {Say(9), Div(Lit(1), Lit(0))}

shomoy == <<"s", "h", "o", "m", "o", "y">>

\* e as the operand of a prefix or infix expression, the condition of an If,
\* the callee or an argument of a Call; s is what is evaluated after it.
Around(e, s) ==
    { Prefix(<<"-">>, e),
      Prefix(<<"!">>, e),
      Add(e, s),
      Add(Lit(1), e),
      If(e, <<Stmt(s)>>, <<s>>),
      Call(e, <<s>>),
      Call(Identifier(dekhao), <<e, s>>),
      Call(Identifier(shomoy), <<e, s>>),
      Call(Identifier(shomoy), <<Lit(1), e, s>>) }

UndefinedOnce == UNION {Around(Undefined, s) : s \in Seen}

UndefinedExpressions ==
    UndefinedOnce \cup UNION {Around(w, s) : w \in UndefinedOnce, s \in Seen}

UndefinedPrograms ==
    {<<s>> : s \in UNION {StatementsOf(e) : e \in UndefinedExpressions}}

\* fn(x) { fn(y) { x + y } }
Mk ==
    FunctionLiteral(<<Var("x")>>,
        <<Stmt(FunctionLiteral(<<Var("y")>>, <<Stmt(Add(Var("x"), Var("y")))>>))>>)

\* fn(x) { dhoro z = x + c; fn(y) { z + y } }
MkLet(c) ==
    FunctionLiteral(<<Var("x")>>,
        << Let(Var("z"), Add(Var("x"), Lit(c))),
           Stmt(FunctionLiteral(<<Var("y")>>, <<Stmt(Add(Var("z"), Var("y")))>>)) >>)

\* mk = fn(x) { fn(y) { x + y } }; mk(a)(b)
ClosureProgram(a, b) ==
    << Let(Var("m"), Mk),
       Stmt(Call(Call(Var("m"), <<Lit(a)>>), <<Lit(b)>>)) >>

\* The function of mk(a) is kept, x is bound at top level and mk is called
\* again, and only then the kept function is called.
ClosureKeptProgram(a, b, c) ==
    << Let(Var("m"), Mk),
       Let(Var("k"), Call(Var("m"), <<Lit(a)>>)),
       Let(Var("x"), Lit(c)),
       Let(Var("o"), Call(Var("m"), <<Lit(c)>>)),
       Stmt(Call(Var("k"), <<Lit(b)>>)) >>

\* The name the inner function reads is bound by a Let of the call.
ClosureLetProgram(a, b, c) ==
    << Let(Var("m"), MkLet(c)),
       Stmt(Call(Call(Var("m"), <<Lit(a)>>), <<Lit(b)>>)) >>

ClosurePrograms ==
    {ClosureProgram(a, b) : a \in Lits, b \in Lits}
    \cup {ClosureKeptProgram(a, b, c) : a \in Lits, b \in Lits, c \in Lits}
    \cup {ClosureLetProgram(a, b, c) : a \in Lits, b \in Lits, c \in Lits}

\* dhoro x = a; jodi (Ha) { dhoro x = b }; x
ShadowIf(a, b) ==
    << Let(Var("x"), Lit(a)),
       Stmt(If(BooleanLiteral(TRUE), <<Let(Var("x"), Lit(b))>>, <<>>)),
       Stmt(Var("x")) >>

\* The Let is in the alternative: an else-if whose block holds it.
ShadowElse(a, b) ==
    << Let(Var("x"), Lit(a)),
       Stmt(If(BooleanLiteral(FALSE), <<Stmt(Lit(0))>>,
               <<If(BooleanLiteral(TRUE), <<Let(Var("x"), Lit(b))>>, <<>>)>>)),
       Stmt(Var("x")) >>

\* The Let is in the body of a loop that a return ends.
ShadowWhile(a, b) ==
    << Let(Var("x"), Lit(a)),
       While(BooleanLiteral(TRUE), <<Let(Var("x"), Lit(b)), Return(Lit(0))>>) >>

ShadowPrograms(a, b) == {ShadowIf(a, b), ShadowElse(a, b), ShadowWhile(a, b)}

AllShadowPrograms == UNION {ShadowPrograms(a, b) : a \in Lits, b \in Lits}

\* f = fn() { x }; dhoro x = n; f()
LateBinding(n) ==
    << Let(Var("f"), FunctionLiteral(<<>>, <<Stmt(Var("x"))>>)),
       Let(Var("x"), Lit(n)),
       Stmt(Call(Var("f"), <<>>)) >>

\* dhoro x = m; f = fn() { x }; dhoro x = n; f()
Rebinding(m, n) ==
    << Let(Var("x"), Lit(m)),
       Let(Var("f"), FunctionLiteral(<<>>, <<Stmt(Var("x"))>>)),
       Let(Var("x"), Lit(n)),
       Stmt(Call(Var("f"), <<>>)) >>

SharingPrograms ==
    {LateBinding(n) : n \in Lits} \cup {Rebinding(m, n) : m \in Lits, n \in Lits}

\* return jodi (Ha) { return n }
NestedReturn(n) ==
    <<Return(If(BooleanLiteral(TRUE), <<Return(Lit(n))>>, <<>>))>>

\* f = fn() { body }; dhoro r = f(); r
CallProgram(body) ==
    << Let(Var("f"), FunctionLiteral(<<>>, body)),
       Let(Var("r"), Call(Var("f"), <<>>)),
       Stmt(Var("r")) >>

ReturnBodies ==
    UNION { { <<Return(Lit(n))>>,
              <<Stmt(If(BooleanLiteral(TRUE), <<Return(Lit(n))>>, <<>>)), Stmt(Lit(0))>>,
              NestedReturn(n) } : n \in Lits }

ReturnPrograms ==
    {NestedReturn(n) : n \in Lits}
    \cup {<<Return(Lit(n))>> : n \in Lits}
    \cup {CallProgram(body) : body \in ReturnBodies}

\* return jodi Ha { return 3 }, the character after the words Ha and return
\* written twice.
NestedReturnSource ==
    <<"r", "e", "t", "u", "r", "n", " ", "j", "o", "d", "i", " ", "H", "a", " ",
      "{", "{", " ", "r", "e", "t", "u", "r", "n", " ", "3", "3", " ", "}">>

\* The bodies of a function of the parameters a and b.
ArityBodies == {Var("a"), Var("b"), Add(Var("a"), Var("b")), Lit(7)}

\* Every list of up to MaxArgs literal arguments.
ArgLists == UNION {[1..k -> Lits] : k \in 0..MaxArgs}

ArgExpressions(args) == [i \in 1..Len(args) |-> Lit(args[i])]

\* f = fn(a, b) { body }; f(args)
ArityProgram(body, args) ==
    << Let(Var("f"), FunctionLiteral(<<Var("a"), Var("b")>>, <<Stmt(body)>>)),
       Stmt(Call(Var("f"), ArgExpressions(args))) >>

\* dhoro b = 9; f = fn(a, b) { b }; f(args): the b of the defining scope is
\* behind the call scope.
ArityOuterProgram(args) ==
    <<Let(Var("b"), Lit(9))>> \o ArityProgram(Var("b"), args)

ArityPrograms ==
    {ArityProgram(body, args) : body \in ArityBodies, args \in ArgLists}
    \cup {ArityOuterProgram(args) : args \in ArgLists}

\* Statements whose value ends a block: an Error (of an expression statement,
\* of a Let, of a Return) or a ReturnValue.
Stoppers ==
    {Stmt(Undefined), Let(Var("x"), Undefined), Return(Undefined),
     Stmt(Infix(Lit(1), <<"+">>, BooleanLiteral(TRUE)))} \cup {Return(Lit(n)) : n \in Lits}

\* Statements that are seen when evaluated, around the one that ends the
\* block: each prints, the Lets bind.
StopBlock(stopper) ==
    << Stmt(Say(1)), Let(Var("x"), Lit(1)), Stmt(Say(2)), stopper,
       Stmt(Say(3)), Let(Var("x"), Lit(2)), Let(Var("y"), Lit(2)) >>

\* The block as the program, as the consequence of an If, as the body of a
\* While, and as the body of a function that is called.
StopProgram(place, stopper) ==
    CASE place = "program" -> StopBlock(stopper)
      [] place = "if" -> <<Stmt(If(BooleanLiteral(TRUE), StopBlock(stopper), <<>>)), Stmt(Say(3))>>
      [] place = "while" -> <<While(BooleanLiteral(TRUE), StopBlock(stopper)), Stmt(Say(3))>>
      [] place = "function" ->
           << Let(Var("f"), FunctionLiteral(<<>>, StopBlock(stopper))),
              Stmt(Call(Var("f"), <<>>)), Stmt(Say(0)) >>

StopPlaces == {"program", "if", "while", "function"}

StopPrograms == {StopProgram(place, stopper) : place \in StopPlaces, stopper \in Stoppers}

\* Conditions whose value is an Error: an unbound name, a type mismatch.
ErrorConditions == {Undefined, Infix(Lit(1), <<"+">>, BooleanLiteral(TRUE))}

LoopBodies == {<<Stmt(Say(1))>>, <<Stmt(Lit(1))>>, <<Return(Lit(1))>>, <<>>}

\* A While or a For with the condition, then a statement that prints.
LoopsOn(condition) ==
    {<<While(condition, body), Stmt(Say(3))>> : body \in LoopBodies}
    \cup {<<For(init, <<condition>>, update, body), Stmt(Say(3))>> :
             init \in {<<>>, <<Let(Var("i"), Lit(0))>>},
             update \in {<<>>, <<Say(2)>>},
             body \in LoopBodies}

ErrorLoopPrograms == UNION {LoopsOn(condition) : condition \in ErrorConditions}

\* Right-hand sides of a Let: values of each kind, and Errors.
LetValues ==
    {Lit(n) : n \in Lits}
    \cup {BooleanLiteral(TRUE), BooleanLiteral(FALSE), StringLiteral(<<"s">>),
          Add(Lit(1), Lit(2)), Undefined, Infix(Lit(1), <<"+">>, BooleanLiteral(TRUE))}

\* Statements before the Let: none, or a Let of the same name.
LetPriors == {<<>>, <<Let(Var("x"), Lit(3))>>}

\* prior; dhoro x = e; x
LetProgram(prior, e) == prior \o <<Let(Var("x"), e), Stmt(Var("x"))>>

\* dhoro x = a; f = fn() { dhoro x = e; x }; dhoro r = f(); x
ScopedLetProgram(a, e) ==
    << Let(Var("x"), Lit(a)),
       Let(Var("f"), FunctionLiteral(<<>>, <<Let(Var("x"), e), Stmt(Var("x"))>>)),
       Let(Var("r"), Call(Var("f"), <<>>)),
       Stmt(Var("x")) >>

LetPrograms ==
    {LetProgram(prior, e) : prior \in LetPriors, e \in LetValues}
    \cup {ScopedLetProgram(a, e) : a \in Lits, e \in LetValues}

\* Arguments: the i-th prints i when evaluated, or is an Error.
ArgumentAt(i) == {Say(i), Undefined, Infix(Lit(i), <<"+">>, BooleanLiteral(TRUE))}

ErrorArguments == {Undefined} \cup {Infix(Lit(i), <<"+">>, BooleanLiteral(TRUE)) : i \in 1..MaxArgs}

SeenArgLists == UNION {{args \in [1..k -> UNION {ArgumentAt(i) : i \in 1..k}] :
                           \A i \in 1..k : args[i] \in ArgumentAt(i)} : k \in 0..MaxArgs}

CallParameters == <<"a", "b", "c", "d">>

\* fn(a, ..) { dekhao(9); 7 } of k parameters.
Applied(k) ==
    FunctionLiteral([i \in 1..k |-> Var(CallParameters[i])], <<Stmt(Say(9)), Stmt(Lit(7))>>)

\* mk = fn() { dekhao(0); fn(a, ..) { dekhao(9); 7 } }; mk()(args): the callee
\* prints 0 when evaluated, the function 9 when applied.
SeenCallProgram(args) ==
    << Let(Var("m"), FunctionLiteral(<<>>, <<Stmt(Say(0)), Stmt(Applied(Len(args)))>>)),
       Stmt(Call(Call(Var("m"), <<>>), args)),
       Stmt(Say(8)) >>

\* u(args): the callee is an Error.
ErrorCalleeProgram(args) == <<Stmt(Call(Undefined, args)), Stmt(Say(8))>>

\* dekhao(args)
DekhaoProgram(args) == <<Stmt(Call(Identifier(dekhao), args)), Stmt(Say(8))>>

SeenCallPrograms ==
    UNION {{SeenCallProgram(args), ErrorCalleeProgram(args), DekhaoProgram(args)} :
              args \in SeenArgLists}

\* i < n as a condition that prints 0 whenever it is evaluated:
\* jodi (i < n) { !dekhao(0) } nahole { dekhao(0) }, true in the one case and
\* Null in the other.
CondSeen(n) ==
    If(Infix(Var("i"), <<"<">>, Lit(n)),
       <<Stmt(Prefix(<<"!">>, Say(0)))>>, <<Say(0)>>)

\* Conditions: none, or i < n for n in 0..2.
ForBounds == 0..2
ForConditions == {<<>>} \cup {<<CondSeen(n)>> : n \in ForBounds}

\* Inits: none, one that prints 7, one that binds i.
ForInits == {<<>>, <<Stmt(Say(7))>>, <<Let(Var("i"), Lit(0))>>}

\* Updates: none, or one that prints 2.
ForUpdates == {<<>>, <<Say(2)>>}

\* Bodies, each printing 1: one that counts i up, one that returns 5, one
\* that is an Error, one that counts and returns 5 on its second turn.
ForBodyKinds == {"count", "return", "error", "second"}

ForBody(kind) ==
    CASE kind = "count" -> <<Stmt(Say(1)), Let(Var("i"), Add(Var("i"), Lit(1)))>>
      [] kind = "return" -> <<Stmt(Say(1)), Return(Lit(5))>>
      [] kind = "error" -> <<Stmt(Say(1)), Stmt(Undefined)>>
      [] kind = "second" ->
           << Stmt(Say(1)), Let(Var("i"), Add(Var("i"), Lit(1))),
              Stmt(If(Infix(Var("i"), <<">">>, Lit(1)), <<Return(Lit(5))>>, <<>>)) >>

\* dhoro i = 0; for (init; condition; update) { body }; dekhao(8)
ForProgram(init, condition, update, kind) ==
    <<Let(Var("i"), Lit(0)), For(init, condition, update, ForBody(kind)), Stmt(Say(8))>>

ForPrograms ==
    {ForProgram(init, condition, update, kind) :
        init \in ForInits, condition \in ForConditions, update \in ForUpdates,
        kind \in ForBodyKinds}

\* Conditions of an If with the Object each evaluates to and whether the If
\* takes its consequence: the two Booleans, Integers with 0 among them, the
\* strings Ha and Na and two other strings, Null (the value of an If that has
\* nothing to evaluate), a Function and a builtin.
IfConditions ==
    { [expr |-> BooleanLiteral(TRUE), truthy |-> TRUE],
      [expr |-> BooleanLiteral(FALSE), truthy |-> FALSE],
      [expr |-> Lit(0), truthy |-> TRUE],
      [expr |-> Lit(1), truthy |-> TRUE],
      [expr |-> StringLiteral(<<"H", "a">>), truthy |-> TRUE],
      [expr |-> StringLiteral(<<"N", "a">>), truthy |-> FALSE],
      [expr |-> StringLiteral(<<"n", "a">>), truthy |-> TRUE],
      [expr |-> StringLiteral(<<>>), truthy |-> TRUE],
      [expr |-> If(BooleanLiteral(FALSE), <<>>, <<>>), truthy |-> FALSE],
      [expr |-> FunctionLiteral(<<>>, <<>>), truthy |-> TRUE],
      [expr |-> Identifier(dekhao), truthy |-> TRUE],
      [expr |-> Infix(Lit(1), <<"<">>, Lit(0)), truthy |-> FALSE],
      [expr |-> Prefix(<<"!">>, Lit(0)), truthy |-> FALSE] }

\* Consequences: { dekhao(1); 5 }, { } and { dekhao(1); return 3 }.
IfConsequences ==
    { <<Stmt(Say(1)), Stmt(Lit(5))>>, <<>>, <<Stmt(Say(1)), Return(Lit(3))>> }

\* Alternatives: none, or an expression that prints 2 and has the value 4.
IfAlternatives ==
    { <<>>, <<If(BooleanLiteral(TRUE), <<Stmt(Say(2)), Stmt(Lit(4))>>, <<>>)>> }

\* if (condition) consequence else alternative; dekhao(8)
IfProgram(condition, consequence, alternative) ==
    <<Stmt(If(condition.expr, consequence, alternative)), Stmt(Say(8))>>

IfPrograms ==
    {IfProgram(condition, consequence, alternative) :
        condition \in IfConditions, consequence \in IfConsequences,
        alternative \in IfAlternatives}

\* Bodies of a function f(n) that calls itself below its base case n < 1:
\* one that hands the call's value on, one that adds n to it, and one that
\* returns it.
RecursiveBodies ==
    { [kind |-> "down", step |-> Call(Var("f"), <<Infix(Var("n"), <<"-">>, Lit(1))>>)],
      [kind |-> "sum",
       step |-> Add(Var("n"), Call(Var("f"), <<Infix(Var("n"), <<"-">>, Lit(1))>>))] }

\* dhoro f = fn(n) { if (n < 1) { 0 } else { step } }; f(k)
RecursiveProgram(body, k) ==
    << Let(Var("f"),
           FunctionLiteral(<<Var("n")>>,
               <<Stmt(If(Infix(Var("n"), <<"<">>, Lit(1)), <<Stmt(Lit(0))>>, <<body.step>>))>>)),
       Stmt(Call(Var("f"), <<Lit(k)>>)) >>

\* The arguments of the first call: 0 is the base case.
RecursionDepths == 0..2

RecursivePrograms ==
    {RecursiveProgram(body, k) : body \in RecursiveBodies, k \in RecursionDepths}

Programs ==
    DivisionByZeroPrograms \cup UndefinedPrograms \cup ClosurePrograms
    \cup AllShadowPrograms \cup SharingPrograms \cup ReturnPrograms \cup ArityPrograms
    \cup StopPrograms \cup ErrorLoopPrograms \cup LetPrograms \cup SeenCallPrograms
    \cup ForPrograms \cup IfPrograms \cup RecursivePrograms

\* fn() { 7 }, fn(a) { 7 } and fn(a, b) { 7 }; the character after a word is
\* written twice, the lexer takes one of the two.
ParameterNames == <<"a", "b", "c", "d", "e", "f", "g", "h">>

RECURSIVE ParameterText(_, _)
ParameterText(i, n) ==
    IF i > n THEN <<>>
    ELSE <<ParameterNames[i]>>
         \o (IF i < n THEN <<",", ",">> ELSE <<")">>)
         \o ParameterText(i + 1, n)

FunctionSource(n) ==
    <<"f", "n", "(", "(">> \o ParameterText(1, n) \o <<")", " ", "{", " ", "7", " ", "}">>

FunctionSources == {FunctionSource(n) : n \in 0..MaxParams}

\* dhoro f = fn(a, b) { return a + b; }; f(3, 4); written the same way.
FunctionScenario ==
    <<"d", "h", "o", "r", "o", " ", "f", " ", "=", "=", " ",
      "f", "n", "(", "(", "a", ",", ",", "b", ")", ")", " ", "{", " ",
      "r", "e", "t", "u", "r", "n", " ", "a", " ", "+", "+", " ", "b", ";", ";", " ", "}", ";", " ",
      "f", "(", "(", "3", ",", " ", "4", ")", ";">>

\* The programs of the scenarios as source text.  The lexer takes the character
\* after a word for itself, so that character is written twice, and a function
\* literal needs a second closing parenthesis after its parameters.
\* dhoro x = u + dekhao(9)
UndefinedSource ==
    <<"d", "h", "o", "r", "o", " ", "x", " ", "=", "=", " ", "u", " ", "+", "+", " ",
      "d", "e", "k", "h", "a", "o", "(", "(", "9", ")">>

\* m = fn(x) { fn(y) { x + y } }; m(2)(3)
ClosureSource ==
    <<"d", "h", "o", "r", "o", " ", "m", " ", "=", "=", " ", "f", "n", "(", "(", "x",
      ")", ")", ")", " ", "{", " ", "f", "n", "(", "(", "y", ")", ")", ")", " ", "{",
      " ", "x", " ", "+", "+", " ", "y", " ", "}", "}", " ", "}", ";", " ", "m", "(",
      "(", "2", ")", "(", "3", ")">>

\* dhoro x = 1; jodi (Ha) { dhoro x = 2 }; x
ShadowSource ==
    <<"d", "h", "o", "r", "o", " ", "x", " ", "=", "=", " ", "1", ";", " ", "j", "o",
      "d", "i", " ", "(", "(", "H", "a", ")", ")", " ", "{", " ", "d", "h", "o", "r",
      "o", " ", "x", " ", "=", "=", " ", "2", " ", "}", ";", " ", "x">>

\* f = fn() { x }; dhoro x = 3; f()
SharingSource ==
    <<"d", "h", "o", "r", "o", " ", "f", " ", "=", "=", " ", "f", "n", "(", "(", ")",
      ")", " ", "{", " ", "x", " ", "}", "}", ";", " ", "d", "h", "o", "r", "o", " ",
      "x", " ", "=", "=", " ", "3", ";", " ", "f", "(", "(", ")">>

\* f = fn(a, b) { b }; f(1)
AritySource ==
    <<"d", "h", "o", "r", "o", " ", "f", " ", "=", "=", " ", "f", "n", "(", "(", "a",
      ",", ",", "b", ")", ")", ")", " ", "{", " ", "b", " ", "}", "}", ";", " ", "f",
      "(", "(", "1", ")">>

\* f = fn(a, b) { a + b }; f(1, 2, 3)
AritySurplusSource ==
    <<"d", "h", "o", "r", "o", " ", "f", " ", "=", "=", " ", "f", "n", "(", "(", "a",
      ",", ",", "b", ")", ")", ")", " ", "{", " ", "a", " ", "+", "+", " ", "b", " ",
      "}", "}", ";", " ", "f", "(", "(", "1", ",", " ", "2", ",", " ", "3", ")">>

\* Statements no grammar of the language accepts, each with the kinds of its
\* tokens: an unclosed parenthesis, an operator without operands, an operator
\* without right operand, a let without a name, an if without a condition.
\* The character after a word is written twice, the lexer takes one of the two.
MalformedStatements ==
    { [text |-> <<"(", "1", ";">>, tokens |-> <<"LParen", "Int", "Semicolon">>],
      [text |-> <<"+", ";">>, tokens |-> <<"Plus", "Semicolon">>],
      [text |-> <<"1", "+", ";">>, tokens |-> <<"Int", "Plus", "Semicolon">>],
      [text |-> <<"d", "h", "o", "r", "o", " ", "5", "5", ";">>,
       tokens |-> <<"Dhoro", "Int", "Semicolon">>],
      [text |-> <<"j", "o", "d", "i", " ", ";", ";">>, tokens |-> <<"Jodi", "Semicolon">>] }

\* m1 a; m2 b;
AccumulationSource(m1, a, m2, b) ==
    m1.text \o <<" ", DigitOf(a), ";", " ">> \o m2.text \o <<" ", DigitOf(b), ";">>

AccumulationTokens(m1, m2) ==
    m1.tokens \o <<"Int", "Semicolon">> \o m2.tokens \o <<"Int", "Semicolon", "Eof">>

AccumulationSources ==
    {AccumulationSource(m1, a, m2, b) :
        m1 \in MalformedStatements, a \in Lits, m2 \in MalformedStatements, b \in Lits}

ScenarioSources ==
    {UndefinedSource, ClosureSource, ShadowSource,
     SharingSource, AritySource, AritySurplusSource}

\* Loop statements with the Statement each is said to parse into: break and
\* continue as the whole input and before a semicolon, while and for with a
\* block body. The character after a word is written twice, the lexer takes
\* one of the two.
LoopStatements ==
    { [text |-> <<"t", "h", "a", "m", "o">>, statement |-> "Break"],
      [text |-> <<"b", "h", "a", "n", "g", "o">>, statement |-> "Break"],
      [text |-> <<"t", "h", "a", "m", "o", ";", ";">>, statement |-> "Break"],
      [text |-> <<"c", "h", "o", "l", "u", "k">>, statement |-> "Continue"],
      [text |-> <<"c", "h", "o", "l", "u", "k", ";", ";">>, statement |-> "Continue"],
      [text |-> <<"j", "o", "t", "o", "k", "h", "o", "n", " ", "(", "(", "1", ")", " ",
                  "{", " ", "2", " ", "}">>,
       statement |-> "While"],
      [text |-> <<"j", "o", "t", "o", "k", "h", "o", "n", " ", "h", "a", " ", " ",
                  "{", " ", "2", " ", "}">>,
       statement |-> "While"],
      [text |-> <<"e", "r", " ", "j", "o", "n", "n", "o", " ", "(", "(", ";", ";", ")", " ",
                  "{", " ", "2", " ", "}">>,
       statement |-> "For"],
      [text |-> <<"e", "r", "j", "o", "n", "n", "o", " ", "(", "(", ";", ";", ")", " ",
                  "{", " ", "2", " ", "}">>,
       statement |-> "For"] }

LoopStatementSources == {l.text : l \in LoopStatements}

\* The logical keywords with the token of each, and the two Boolean literals.
LogicalKeywords ==
    { [text |-> <<"e", "b", "o", "n", "g">>, token |-> "Ebong"],
      [text |-> <<"a", "n", "d">>, token |-> "Ebong"],
      [text |-> <<"o", "t", "h", "o", "b", "a">>, token |-> "Othoba"],
      [text |-> <<"b", "a">>, token |-> "Othoba"],
      [text |-> <<"o", "r">>, token |-> "Othoba"] }

BooleanWords ==
    { [text |-> <<"h", "a">>, value |-> TRUE], [text |-> <<"n", "a">>, value |-> FALSE] }

\* a op b
LogicalSource(a, op, b) == a.text \o <<" ">> \o op.text \o <<" ">> \o b.text

LogicalSources ==
    {LogicalSource(a, op, b) : a \in BooleanWords, op \in LogicalKeywords, b \in BooleanWords}

\* Statements the grammar accepts, each with the kinds of its tokens.
WellFormedStatements ==
    { [text |-> <<"1", ";">>, tokens |-> <<"Int", "Semicolon">>],
      [text |-> <<"1", "+", "2", ";">>, tokens |-> <<"Int", "Plus", "Int", "Semicolon">>],
      [text |-> <<"(", "1", ")", ";">>, tokens |-> <<"LParen", "Int", "RParen", "Semicolon">>] }

\* An if whose condition starts with an operator, and one whose condition
\* starts with a closing parenthesis; the number that follows stands where
\* the rest of the condition would.
MalformedIfs ==
    { [text |-> <<"j", "o", "d", "i", " ", "+", "+">>, tokens |-> <<"Jodi", "Plus">>],
      [text |-> <<"j", "o", "d", "i", " ", ")", ")">>, tokens |-> <<"Jodi", "RParen">>] }

\* statement a;
FirstThenSource(statement, a) == statement.text \o <<" ", DigitOf(a), ";">>

FirstThenSources ==
    {FirstThenSource(statement, a) :
        statement \in WellFormedStatements \cup MalformedStatements \cup MalformedIfs,
        a \in Lits}

Sources ==
    ArithSources \cup ArithExamples \cup LetSources \cup DivisionByZeroSources
    \cup FunctionSources \cup {FunctionScenario, NestedReturnSource} \cup ScenarioSources
    \cup AccumulationSources \cup LoopStatementSources \cup LogicalSources
    \cup FirstThenSources

\* ---- texts handed to lookup_ident and normalize_keyword

\* Keywords of one, two and three words, a comment tag, and texts that are no
\* keyword: a name, a keyword with a name behind it, and the empty text.
KeywordTexts ==
    { <<"d", "h", "o", "r", "o">>, <<"h", "a">>, <<"m", "o", "n", "e", " ", "k", "o", "r", "i">>,
      <<"i", "n", "p", "u", "t", " ", "n", "a", "o", " ", "k", "o", "r", "o">>,
      <<"<", "c", "m", "n", "t", ">">>,
      <<"x">>, <<"m", "o", "n", "e", " ", "x">>, <<"u", "n", "k", "n", "o", "w", "n">>, <<>> }

to_uppercase_char(c) ==
    IF c \in Range(Lower)
    THEN Upper[CHOOSE i \in DOMAIN Lower : Lower[i] = c]
    ELSE c

\* s with the whitespace byte w put in behind its first i bytes.
InsertAt(s, i, w) == SubSeq(s, 1, i) \o <<w>> \o SubSeq(s, i + 1, Len(s))

\* The places where a whitespace byte leads, trails or repeats whitespace.
BlankPlaces(s) ==
    {i \in 0..Len(s) :
        \/ i = 0
        \/ i = Len(s)
        \/ is_whitespace(s[i])
        \/ is_whitespace(s[i + 1])}

\* ---- texts handed to a Lexer whose next_token is called directly

\* First words: identifiers, keywords, and first words of two-word keywords.
FirstWords ==
    { <<"x">>, <<"a", "b">>, <<"j", "o", "d", "i">>, <<"m", "o", "n", "e">>,
      <<"r", "e", "t", "u", "r", "n">>, <<"D", "h", "o", "r", "o">> }

\* Second words: identifiers, keywords, and second words of two-word keywords.
SecondWords ==
    { <<"y">>, <<"x">>, <<"k", "o", "r", "i">>, <<"k", "o", "r", "o">>,
      <<"d", "h", "o", "r", "o">> }

Blanks == { <<" ">>, <<" ", " ">>, <<"\n">>, <<"\t">>, <<" ", "\n", " ">> }

Leads == { <<>>, <<" ">>, <<"\n">> }

Trailers == { <<>>, <<" ", "z">> }

\* lead w1 blank w2 trailer
WordPairSource(lead, w1, blank, w2, trailer) == lead \o w1 \o blank \o w2 \o trailer

WordPairSources ==
    {WordPairSource(lead, w1, blank, w2, trailer) :
        lead \in Leads, w1 \in FirstWords, blank \in Blanks, w2 \in SecondWords,
        trailer \in Trailers}

\* U+00E9, U+0995 (in the Bengali block) and U+20AC in UTF-8.
EAcute == <<"C3", "A9">>
BengaliKa == <<"E0", "A6", "95">>
Euro == <<"E2", "82", "AC">>

NonAsciiTexts ==
    { EAcute, BengaliKa, Euro,
      <<"x", " ">> \o EAcute, <<"1", " ">> \o Euro \o <<" ", "2">>,
      <<"\"">> \o EAcute \o <<"\"">>, <<"\"", "a">> \o EAcute \o <<"\"">>,
      <<"=", "a", "b", "c", "d">> \o EAcute, <<"=", " ">> \o EAcute,
      <<"'", "a">> \o EAcute, <<"/", "/", " ">> \o Euro \o <<"\n", "1">>,
      <<"/", "*">> \o BengaliKa \o <<"*", "/", "1">> }

\* Literals and comments that do not end, with the message of each.
Unterminated ==
    { [text |-> <<"\"", "a", "b">>, message |-> <<"Unterminated string literal">>],
      [text |-> <<"\"">>, message |-> <<"Unterminated string literal">>],
      [text |-> <<"'", "'">>, message |-> <<"Empty or invalid char literal">>],
      [text |-> <<"'">>, message |-> <<"Empty or invalid char literal">>],
      [text |-> <<"'", "a">>, message |-> <<"Unterminated char literal">>],
      [text |-> <<"'", "a", "b", "'">>, message |-> <<"Unterminated char literal">>],
      [text |-> <<"/", "*", " ", "x">>,
       message |-> <<"Unterminated multi-line comment starting with /*">>],
      [text |-> <<"{", "-", " ", "x", "-">>,
       message |-> <<"Unterminated multi-line comment starting with {-">>],
      [text |-> <<"(", "*", "x", "*">>,
       message |-> <<"Unterminated multi-line comment starting with (*">>],
      [text |-> <<"=", "b", "e", "g", "i", "n", " ", "=", "e", "n">>,
       message |-> <<"Unterminated multi-line comment starting with =begin">>],
      [text |-> <<"\"", "\"", "\"", "x", "\"", "\"">>,
       message |-> <<"Unterminated multi-line comment starting with \"\"\"">>],
      [text |-> <<"'", "'", "'", "x">>,
       message |-> <<"Unterminated multi-line comment starting with '''">>] }

\* Bytes that start no token.
IllegalChars == {"@", "$", "?", "~", "%"}

\* Well-formed text before the literal under test, with the number of its
\* tokens: nothing, a number, a closed comment, a closed string, a closed char.
Befores ==
    { [text |-> <<>>, tokens |-> 0],
      [text |-> <<"1", "\n">>, tokens |-> 1],
      [text |-> <<"/", "*", "x", "*", "/">>, tokens |-> 0],
      [text |-> <<"\"", "a", "\"", " ">>, tokens |-> 1],
      [text |-> <<"'", "a", "'", " ">>, tokens |-> 1] }

UnterminatedSources == {before.text \o u.text : before \in Befores, u \in Unterminated}

IllegalCharSources ==
    {before.text \o <<c>> \o after :
        before \in Befores, c \in IllegalChars, after \in {<<>>, <<" ", "1">>, <<"1">>}}

\* Text with the byte 0 in it.
NulSources ==
    { <<"1", NUL, " ", "2">>, <<NUL, "x">>, <<"\"", "a", "\"", NUL, NUL, "+">> }

\* The bytes between the opener of a block comment and its closer, or the end
\* of the input: at most MaxComment of them.
MaxComment == 3

\* The block comments: the opener as bytes and as text, the closer as bytes.
CommentStyles ==
    { [open |-> <<"/", "*">>, start |-> "/*", close |-> <<"*", "/">>],
      [open |-> <<"{", "-">>, start |-> "{-", close |-> <<"-", "}">>],
      [open |-> <<"(", "*">>, start |-> "(*", close |-> <<"*", ")">>],
      [open |-> <<"=", "b", "e", "g", "i", "n">>, start |-> "=begin",
       close |-> <<"=", "e", "n", "d">>],
      [open |-> <<"\"", "\"", "\"">>, start |-> "\"\"\"", close |-> <<"\"", "\"", "\"">>],
      [open |-> <<"'", "'", "'">>, start |-> "'''", close |-> <<"'", "'", "'">>] }

\* What stands in a comment: a letter, a blank, and the bytes of the first
\* half of its closer.
CommentBytes(style) == {"a", " ", style.close[1], style.close[2]}

CommentBodies(style) ==
    UNION {[1..n -> CommentBytes(style)] : n \in 0..MaxComment}

\* What follows the comment: nothing, or a number.
CommentTrailers == { <<>>, <<"1">>, <<" ", "1">> }

\* /* a **/ x
CommentExample == <<"/", "*", " ", "a", " ", "*", "*", "/", " ", "x">>

\* opener body closer trailer, and opener body trailer
CommentSources ==
    {CommentExample} \cup
    UNION { {style.open \o body \o closer \o trailer :
                body \in CommentBodies(style), closer \in {<<>>, style.close},
                trailer \in CommentTrailers} : style \in CommentStyles }

\* The letters, underscores and Bengali code points of an identifier: at most
\* MaxRun of them.
MaxRun == 3

\* U+09CE in UTF-8, the second Bengali code point of the texts.
BengaliTa == <<"E0", "A7", "8E">>

\* What an identifier is made of: an ASCII letter, an underscore, and two code
\* points of the Bengali block, one from each of its halves.
IdentifierPieces == { <<"q">>, <<"_">>, BengaliKa, BengaliTa }

RECURSIVE Flatten(_)
Flatten(pieces) == IF pieces = <<>> THEN <<>> ELSE Head(pieces) \o Flatten(Tail(pieces))

IdentifierRuns ==
    {Flatten(pieces) : pieces \in UNION {[1..n -> IdentifierPieces] : n \in 1..MaxRun}}

\* What ends the run: the end of the input, a blank, a semicolon.
RunEnds == { <<>>, <<" ">>, <<";">> }

IdentifierSources == {run \o end : run \in IdentifierRuns, end \in RunEnds}

\* A word, whitespace or none, and the lexemes behind it: `x = 5` and `f(3)`
\* are among the texts.
LeadingWords == { <<"x">>, <<"f">>, <<"d", "h", "o", "r", "o">>, <<"a", "_", "b">> }

WordGaps == { <<>>, <<" ">>, <<"\n", " ">> }

\* What follows the word, with the kinds of its tokens.
Followers ==
    { [text |-> <<"=", " ", "5">>, tokens |-> <<"Assign", "Int", "Eof">>],
      [text |-> <<"(", "3", ")">>, tokens |-> <<"LParen", "Int", "RParen", "Eof">>],
      [text |-> <<";">>, tokens |-> <<"Semicolon", "Eof">>],
      [text |-> <<"+", " ", "1">>, tokens |-> <<"Plus", "Int", "Eof">>],
      [text |-> <<"=", "=", "1">>, tokens |-> <<"Eq", "Int", "Eof">>],
      [text |-> <<"\"", "s", "\"">>, tokens |-> <<"String", "Eof">>] }

WordThenSources ==
    {word \o gap \o follower.text :
        word \in LeadingWords, gap \in WordGaps, follower \in Followers}

LexSources ==
    WordPairSources \cup NonAsciiTexts \cup UnterminatedSources \cup IllegalCharSources
    \cup NulSources \cup ArithExamples \cup LetSources \cup ScenarioSources
    \cup CommentSources \cup IdentifierSources \cup WordThenSources


\* ------------------------------------------------------------------ main.rs

VARIABLES
    source,     \* the text handed to Lexer::new, <<>> when a Program is given
    pc,         \* where the run is: source, parsed, rejected, done, fault
    program,    \* the Program parse_program returned
    errors,     \* parser.errors
    env,        \* the root Environment of the run
    result,     \* the value of the last statement evaluated, then of eval
    out,        \* the lines printed
    idx,        \* the statements of program evaluated so far
    lexer,      \* the Lexer a caller of next_token holds, <<>> when the parser holds it
    tokens,     \* the tokens next_token returned to that caller, in order
    calls,      \* the calls of next_token that caller made
    texts,      \* the texts a caller of lookup_ident made, each with how it was made
    kinds,      \* what lookup_ident returned for them, in order
    parser,     \* the Parser in the loop of parse_program, <<>> outside of it
    passes,     \* the passes through that loop so far
    input_buffer,   \* the REPL's buffer of the lines not yet parsed
    reads       \* the lines the REPL has read

vars ==
    <<source, pc, program, errors, env, result, out, idx, lexer, tokens, calls, texts, kinds,
      parser, passes, input_buffer, reads>>

Fresh ==
    /\ errors = <<>>
    /\ env = Environment_new
    /\ result = Null
    /\ out = <<>>
    /\ idx = 0

NoLexer ==
    /\ lexer = <<>>
    /\ tokens = <<>>
    /\ calls = 0

NoTexts ==
    /\ texts = <<>>
    /\ kinds = <<>>

NoParser ==
    /\ parser = <<>>
    /\ passes = 0

NoRepl ==
    /\ input_buffer = <<>>
    /\ reads = 0

InitSource ==
    /\ source \in Sources
    /\ pc = "source"
    /\ program = <<>>
    /\ Fresh
    /\ NoLexer
    /\ NoTexts
    /\ NoParser
    /\ NoRepl

\* eval is handed a Program and a fresh root Environment.
InitProgram ==
    /\ program \in Programs
    /\ source = <<>>
    /\ pc = "parsed"
    /\ Fresh
    /\ NoLexer
    /\ NoTexts
    /\ NoParser
    /\ NoRepl

Init == InitSource \/ InitProgram

\* Lexer::new, Parser::new and parse_program; the driver goes on to eval only
\* when the parser recorded no diagnostic.
Parse ==
    /\ pc = "source"
    /\ LET driver(r) ==
               IF r.p.lexer.fault
               THEN /\ pc' = "fault"
                    /\ UNCHANGED <<program, errors>>
               ELSE /\ program' = r.program
                    /\ errors' = r.p.errors
                    /\ pc' = IF r.p.errors = <<>> THEN "parsed" ELSE "rejected"
       IN  driver(parse_program(Parser_new(Lexer_new(source))))
    /\ UNCHANGED <<source, env, result, out, idx, lexer, tokens, calls, texts, kinds,
                   parser, passes, input_buffer, reads>>

\* One turn of the loop of eval: a statement, then the match on its value.
EvalStatement ==
    /\ pc = "parsed"
    /\ idx < Len(program)
    /\ LET turn(r) ==
               /\ env' = r.c.env
               /\ out' = r.c.out
               /\ idx' = idx + 1
               /\ CASE r.v.t = "Panic" -> pc' = "fault" /\ UNCHANGED result
                    [] r.v.t = "Running" -> pc' = "running" /\ UNCHANGED result
                    [] r.v.t = "ReturnValue" ->
                         pc' = "done" /\ result' = format_boolean(r.v.value)
                    [] r.v.t = "Error" -> pc' = "done" /\ result' = r.v
                    [] OTHER -> pc' = "parsed" /\ result' = r.v
       IN  turn(eval_statement(program[idx + 1], Ctx(env, out, MaxSteps)))
    /\ UNCHANGED <<source, program, errors, lexer, tokens, calls, texts, kinds,
                   parser, passes, input_buffer, reads>>

\* The end of eval, after the last statement.
EvalFinish ==
    /\ pc = "parsed"
    /\ idx = Len(program)
    /\ result' = format_boolean(result)
    /\ pc' = "done"
    /\ UNCHANGED <<source, program, errors, env, out, idx, lexer, tokens, calls, texts, kinds,
                   parser, passes, input_buffer, reads>>

Next == Parse \/ EvalStatement \/ EvalFinish

Spec == Init /\ [][Next]_vars

\* A caller that holds a Lexer and calls next_token on it, as Parser::new and
\* Parser::next_token do.
LexInit ==
    /\ source \in LexSources
    /\ pc = "lexing"
    /\ program = <<>>
    /\ Fresh
    /\ lexer = call("Lexer_new", <<source>>)
    /\ tokens = <<>>
    /\ calls = 0
    /\ NoTexts
    /\ NoParser
    /\ NoRepl

\* One call of next_token; a panic ends the caller.
NextToken ==
    /\ pc = "lexing"
    /\ calls < Len(source) + 1 + MaxEofCalls
    /\ calls' = calls + 1
    /\ LET caller(r) ==
               IF r.l.fault
               THEN /\ pc' = "fault"
                    /\ UNCHANGED <<lexer, tokens>>
               ELSE /\ lexer' = r.l
                    /\ tokens' = Append(tokens, r.tok)
                    /\ pc' = "lexing"
       IN  caller(call("Lexer_next_token", <<lexer>>))
    /\ UNCHANGED <<source, program, errors, env, result, out, idx, texts, kinds,
                   parser, passes, input_buffer, reads>>

LexNext == NextToken

LexSpec == LexInit /\ [][LexNext]_vars

\* The caller makes one more call of next_token.
CallMade ==
    /\ pc = "lexing"
    /\ calls < Len(source) + 1 + MaxEofCalls
    /\ calls' = calls + 1

\* The caller keeps calling: nothing else runs, and a call returns or panics.
LexLive == LexSpec /\ WF_calls(CallMade)

\* A caller of lookup_ident and normalize_keyword: it looks a text up, then
\* looks up a text made from it, and so on.
KeywordInit ==
    /\ source \in KeywordTexts
    /\ pc = "text"
    /\ program = <<>>
    /\ Fresh
    /\ NoLexer
    /\ texts = <<[text |-> source, by |-> "given"]>>
    /\ kinds = <<>>
    /\ NoParser
    /\ NoRepl

Last(s) == s[Len(s)]

\* The next text may be made once the last was looked up.
MayEdit ==
    /\ pc = "text"
    /\ Len(kinds) = Len(texts)
    /\ Len(texts) <= MaxEdits
    /\ UNCHANGED <<source, pc, program, errors, env, result, out, idx, lexer, tokens,
                   calls, kinds, parser, passes, input_buffer, reads>>

LookupIdent ==
    /\ pc = "text"
    /\ Len(kinds) < Len(texts)
    /\ kinds' = Append(kinds, lookup_ident(Last(texts).text))
    /\ UNCHANGED <<source, pc, program, errors, env, result, out, idx, lexer, tokens,
                   calls, texts, parser, passes, input_buffer, reads>>

NormalizeKeyword ==
    /\ MayEdit
    /\ texts' = Append(texts, [text |-> normalize_keyword(Last(texts).text),
                               by |-> "normalize_keyword"])

\* One letter written as a capital.
ChangeCase ==
    /\ MayEdit
    /\ \E i \in DOMAIN Last(texts).text :
          /\ Last(texts).text[i] \in Range(Lower)
          /\ texts' = Append(texts,
                 [text |-> [Last(texts).text EXCEPT ![i] = to_uppercase_char(@)],
                  by |-> "case"])

\* One more whitespace byte in front, behind, or next to whitespace.
InsertBlank ==
    /\ MayEdit
    /\ \E i \in BlankPlaces(Last(texts).text), w \in {" ", "\t", "\n"} :
          texts' = Append(texts, [text |-> InsertAt(Last(texts).text, i, w), by |-> "blank"])

KeywordNext == LookupIdent \/ NormalizeKeyword \/ ChangeCase \/ InsertBlank

KeywordSpec == KeywordInit /\ [][KeywordNext]_vars

\* ------------------------------------------------------------------ the loop of parse_program

\* jodi (1 < 2) tahole { dekhao(1); 2 } nahoy { 3 }, the first character after a
\* word written twice.
IfElseText ==
    <<"j", "o", "d", "i", " ", "(", "(", "1", " ", "<", " ", "2", ")", " ", "t", "a", "h",
      "o", "l", "e", " ", "{", "{", " ", "d", "e", "k", "h", "a", "o", "(", "(", "1", ")",
      ";", " ", "2", " ", "}", " ", "n", "a", "h", "o", "y", " ", "{", "{", " ", "3", " ",
      "}">>

\* dekhao { a (1 + 2) b }; 4 written the same way.
TemplateText ==
    <<"d", "e", "k", "h", "a", "o", " ", "{", "{", " ", "a", " ", "(", "(", "1", " ", "+",
      " ", "2", ")", " ", "b", " ", "}", "}", ";", " ", "4">>

\* fn(a, b, c) { f(1, 2 * 3, g()); } written the same way.
CallText ==
    <<"f", "n", "(", "(", "a", ",", ",", "b", ",", ",", "c", ")", ")", " ", "{", " ", "f",
      "(", "(", "1", ",", " ", "2", " ", "*", " ", "3", ",", " ", "g", "(", "(", ")", ")",
      ";", " ", "}">>

\* A statement and then a Bengali letter, at which the lexer panics.
PanicText == <<"1", ";", " ">> \o BengaliKa

ParseTexts == {IfElseText, TemplateText, CallText, FunctionScenario, PanicText}

\* Every text cut off at every place: constructs left open at the end of input.
ParseSources == UNION {{SubSeq(text, 1, n) : n \in 0..Len(text)} : text \in ParseTexts}

\* Lexer::new and Parser::new; parse_program is about to test its loop condition.
ParseInit ==
    /\ source \in ParseSources
    /\ program = <<>>
    /\ Fresh
    /\ NoLexer
    /\ NoTexts
    /\ NoRepl
    /\ parser = call("Parser_new", <<call("Lexer_new", <<source>>)>>)
    /\ passes = 0
    /\ pc = IF parser.lexer.fault THEN "fault" ELSE "parsing"

\* The loop condition can be tested once more: every pass takes at least one of
\* the tokens, and there are no more tokens than bytes.
MayPass ==
    /\ pc = "parsing"
    /\ passes <= Len(source)

\* One pass through the loop; a panic of the lexer ends parse_program.
ParseStatement ==
    /\ MayPass
    /\ parser.cur_token.token_type # "Eof"
    /\ passes' = passes + 1
    /\ LET loop(pass) ==
               /\ parser' = pass.p
               /\ program' = program \o pass.r
               /\ pc' = IF pass.p.lexer.fault THEN "fault" ELSE "parsing"
       IN  loop(call("parse_program_pass", <<parser>>))
    /\ UNCHANGED <<source, errors, env, result, out, idx, lexer, tokens, calls, texts, kinds,
                   input_buffer, reads>>

\* The loop condition fails at Eof: parse_program returns, and the driver
\* reads the diagnostics.
ParseEnd ==
    /\ MayPass
    /\ parser.cur_token.token_type = "Eof"
    /\ passes' = passes + 1
    /\ errors' = parser.errors
    /\ pc' = IF parser.errors = <<>> THEN "parsed" ELSE "rejected"
    /\ UNCHANGED <<source, program, env, result, out, idx, lexer, tokens, calls, texts, kinds,
                   parser, input_buffer, reads>>

ParseNext == ParseStatement \/ ParseEnd

ParseSpec == ParseInit /\ [][ParseNext]_vars

\* The loop condition is tested once more.
PassMade ==
    /\ MayPass
    /\ passes' = passes + 1

\* parse_program runs on its own thread of control: a pass that can be made is made.
ParseLive == ParseSpec /\ WF_passes(PassMade)

\* ------------------------------------------------------------------ the REPL

RECURSIVE brackets_balanced_loop(_, _, _)
\* The for loop of brackets_balanced from the i-th character on.
brackets_balanced_loop(input, i, count) ==
    IF i > Len(input) THEN count = 0
    ELSE IF input[i] = "{" THEN brackets_balanced_loop(input, i + 1, count + 1)
    ELSE IF input[i] = "}"
    THEN IF count = 0 THEN FALSE ELSE brackets_balanced_loop(input, i + 1, count - 1)
    ELSE brackets_balanced_loop(input, i + 1, count)

brackets_balanced(input) == brackets_balanced_loop(input, 1, 0)

RECURSIVE trim_start(_)
trim_start(s) ==
    IF s # <<>> /\ is_whitespace(Head(s)) THEN trim_start(Tail(s)) ELSE s

RECURSIVE trim_end(_)
trim_end(s) ==
    IF s # <<>> /\ is_whitespace(s[Len(s)]) THEN trim_end(SubSeq(s, 1, Len(s) - 1)) ELSE s

\* str::trim
trim(s) == trim_end(trim_start(s))

prosthan == <<"p", "r", "o", "s", "t", "h", "a", "n">>

\* The lines typed: braces, an expression, the head of an If, a print, and the
\* exit command; none of them is one of the commands the loop handles itself.
ReplLines ==
    { <<"{", "\n">>,
      <<"}", "\n">>,
      <<"1", "\n">>,
      <<"j", "o", "d", "i", " ", "(", "(", "1", ")", " ", "{", "\n">>,
      <<"d", "e", "k", "h", "a", "o", "(", "(", "2", ")", "\n">>,
      <<" ", "p", "r", "o", "s", "t", "h", "a", "n", "\n">> }

\* The REPL shows its first prompt: a fresh Environment and an empty buffer.
ReplInit ==
    /\ source = <<>>
    /\ pc = "repl"
    /\ program = <<>>
    /\ Fresh
    /\ NoLexer
    /\ NoTexts
    /\ NoParser
    /\ NoRepl

\* One turn of the loop on a line read: the exit command, or the line is
\* appended and the buffer, once its braces balance, is parsed, evaluated,
\* echoed and cleared.
ReadLine ==
    /\ pc = "repl"
    /\ reads < MaxLines
    /\ reads' = reads + 1
    /\ \E line \in ReplLines :
          LET buffer == input_buffer \o line
              evaluated(r) ==
                  /\ env' = r.c.env
                  /\ result' = r.v
                  /\ out' = IF r.v.t = "Null" \/ r.v.t = "Error" \/ unwinds(r.v) THEN r.c.out
                            ELSE Append(r.c.out, call("Display", <<r.v>>))
                  /\ pc' = IF r.v.t = "Panic" THEN "fault"
                           ELSE IF r.v.t = "Running" THEN "running" ELSE "repl"
              parsed(r) ==
                  IF r.p.lexer.fault
                  THEN /\ pc' = "fault"
                       /\ input_buffer' = buffer
                       /\ UNCHANGED <<source, program, errors, env, result, out>>
                  ELSE /\ source' = buffer
                       /\ program' = r.program
                       /\ errors' = r.p.errors
                       /\ input_buffer' = <<>>
                       /\ IF r.p.errors # <<>>
                          THEN UNCHANGED <<pc, env, result, out>>
                          ELSE evaluated(call("eval", <<r.program, Ctx(env, out, MaxSteps)>>))
          IN  IF trim(line) = prosthan
              THEN /\ pc' = "exited"
                   /\ UNCHANGED <<source, program, errors, env, result, out, input_buffer>>
              ELSE IF brackets_balanced(buffer)
              THEN parsed(parse_program(Parser_new(Lexer_new(buffer))))
              ELSE /\ input_buffer' = buffer
                   /\ UNCHANGED <<source, pc, program, errors, env, result, out>>
    /\ UNCHANGED <<idx, lexer, tokens, calls, texts, kinds, parser, passes>>

\* read_line returns 0 at the end of the input: the loop is left.
ReadEof ==
    /\ pc = "repl"
    /\ pc' = "exited"
    /\ UNCHANGED <<source, program, errors, env, result, out, idx, lexer, tokens, calls, texts,
                   kinds, parser, passes, input_buffer, reads>>

ReplNext == ReadLine \/ ReadEof

ReplSpec == ReplInit /\ [][ReplNext]_vars

\* ------------------------------------------------------------------ C1

\* C1: the pipeline on "<let> x = 5; <let> y = x + 2; y;", for every spelling
\* of the let keyword, records no parser diagnostic and evaluates to Integer(7).
C1_LetScenario ==
    (source \in LetSources /\ pc # "source") =>
        /\ errors = <<>>
        /\ pc \in {"parsed", "done"}
        /\ (pc = "done" => result = Integer(7))

\* ------------------------------------------------------------------ C2

\* The standard reading of an arithmetic expression, by the grammar
\*   expr ::= term {(+|-) term}   term ::= factor {(*|/) factor}
\*   factor ::= digit | ( expr )
\* with blanks skipped: each level is a left-to-right fold.
RECURSIVE RefExpr(_)
RECURSIVE RefExprRest(_, _)
RECURSIVE RefTerm(_)
RECURSIVE RefTermRest(_, _)
RECURSIVE RefFactor(_)

NoBlanks(s) == SelectSeq(s, LAMBDA ch : ch # " ")

RefFactor(s) ==
    IF Head(s) = "("
    THEN LET inner == RefExpr(Tail(s))
         IN  [ast |-> inner.ast, rest |-> Tail(inner.rest)]
    ELSE [ast |-> IntegerLiteral(CHOOSE d \in 0..9 : DigitChars[d + 1] = Head(s)),
          rest |-> Tail(s)]

RefTermRest(left, s) ==
    IF s # <<>> /\ Head(s) \in {"*", "/"}
    THEN LET right == RefFactor(Tail(s))
         IN  RefTermRest(Infix(left, <<Head(s)>>, right.ast), right.rest)
    ELSE [ast |-> left, rest |-> s]

RefTerm(s) == LET first == RefFactor(s) IN RefTermRest(first.ast, first.rest)

RefExprRest(left, s) ==
    IF s # <<>> /\ Head(s) \in {"+", "-"}
    THEN LET right == RefTerm(Tail(s))
         IN  RefExprRest(Infix(left, <<Head(s)>>, right.ast), right.rest)
    ELSE [ast |-> left, rest |-> s]

RefExpr(s) == LET first == RefTerm(s) IN RefExprRest(first.ast, first.rest)

RefAST(s) == RefExpr(NoBlanks(s)).ast

Abs(n) == IF n < 0 THEN -n ELSE n

Sign(n) == IF n < 0 THEN -1 ELSE 1

RECURSIVE ArithValue(_)
\* The value of the tree in integer arithmetic, the quotient rounded toward
\* zero; an Option, none where a divisor is zero.
ArithValue(ast) ==
    IF ast.e = "IntegerLiteral" THEN <<ast.value>>
    ELSE LET l == ArithValue(ast.left)
             r == ArithValue(ast.right)
         IN  IF l = <<>> \/ r = <<>> THEN <<>>
             ELSE CASE ast.operator = <<"+">> -> <<l[1] + r[1]>>
                    [] ast.operator = <<"-">> -> <<l[1] - r[1]>>
                    [] ast.operator = <<"*">> -> <<l[1] * r[1]>>
                    [] ast.operator = <<"/">> ->
                         IF r[1] = 0 THEN <<>>
                         ELSE <<Sign(l[1]) * Sign(r[1]) * (Abs(l[1]) \div Abs(r[1]))>>

\* C2: for an expression of integer literals, + - * / and parentheses,
\* parse_expression builds the tree of the standard reading (* and / bind
\* tighter than + and -, equal precedence associates to the left, parentheses
\* override both), and with non-zero divisors its evaluation is the
\* arithmetic value of that reading.
C2_Precedence ==
    (source \in ArithSources \cup ArithExamples /\ pc # "source") =>
        /\ errors = <<>>
        /\ program = <<ExpressionStatement(RefAST(source))>>
        /\ (ArithValue(RefAST(source)) # <<>> => pc # "fault")
        /\ (pc = "done" =>
              /\ ArithValue(RefAST(source)) # <<>>
              /\ result = Integer(ArithValue(RefAST(source))[1]))

C2_Witness ==
    /\ source = <<"2", " ", "+", " ", "3", " ", "*", " ", "4">>
    /\ pc = "done"
    /\ result = Integer(14)

\* ------------------------------------------------------------------ C3

\* C3: a statement holding an integer division whose right operand evaluates
\* to 0, alone, nested in a larger expression or as a call argument, raises no
\* fault and evaluates to an Error value.
C3_DivisionByZero ==
    (program \in DivisionByZeroPrograms /\ idx >= 1) =>
        /\ pc # "fault"
        /\ result.t = "Error"

\* ------------------------------------------------------------------ C4

\* C4: a statement in which an unbound identifier is the operand of a prefix
\* or infix expression, the condition of an If, the callee or an argument of a
\* Call, or the right-hand side of a Let or Return, evaluates to
\* Error("identifier not found: <name>"); nothing after the identifier is
\* evaluated (nothing is printed, nothing is bound) and no fault is raised.
C4_UndefinedIdentifier ==
    (program \in UndefinedPrograms /\ idx >= 1) =>
        /\ pc = "done"
        /\ result = Error(<<"identifier not found: ">> \o Undefined.name)
        /\ out = <<>>
        /\ env = Environment_new

C4_Witness ==
    /\ source = UndefinedSource
    /\ program = <<Let(Var("x"), Add(Undefined, Say(9)))>>
    /\ idx = 1
    /\ pc = "done"
    /\ result = Error(<<"identifier not found: ", "u">>)
    /\ out = <<>>

\* ------------------------------------------------------------------ C5

\* C5: a function literal evaluated in the body of a call, reading a name the
\* call's scope binds (a parameter, or a Let evaluated before the literal),
\* resolves the name to that binding when the Function is called after the
\* defining call has returned: mk(a)(b) is a + b, also when the Function was
\* kept while x was bound elsewhere and mk was called again.
C5_ClosureOutlives ==
    program \in ClosurePrograms =>
        /\ pc \notin {"fault", "running"}
        /\ pc = "done" =>
              \A a \in Lits, b \in Lits :
                  /\ program = ClosureProgram(a, b) => result = Integer(a + b)
                  /\ \A c \in Lits :
                        /\ program = ClosureKeptProgram(a, b, c) => result = Integer(a + b)
                        /\ program = ClosureLetProgram(a, b, c) =>
                              result = Integer(a + c + b)

C5_Witness ==
    /\ source = ClosureSource
    /\ program = ClosureProgram(2, 3)
    /\ pc = "done"
    /\ result = Integer(5)

\* ------------------------------------------------------------------ C6

\* C6: a Let in a nested block (the consequence or the alternative of an If,
\* the body of a loop) with the name of a binding of the enclosing scope
\* leaves that binding alone: once the block has run, the name still has the
\* value it had before.
C6_Shadowing ==
    (program \in AllShadowPrograms /\ idx >= 2) =>
        \A a \in Lits, b \in Lits :
            program \in ShadowPrograms(a, b) =>
                /\ Environment_get(env, <<"x">>) = <<Integer(a)>>
                /\ (idx = 3 /\ pc = "done" => result = Integer(a))

\* ------------------------------------------------------------------ C7

\* C7: a Function shares the environment its literal was evaluated in: a
\* binding added to that scope, or rebound in it, after the literal was
\* evaluated is what the body sees when the function is called.
C7_SharedEnvironment ==
    (program \in SharingPrograms /\ pc = "done") =>
        \A m \in Lits, n \in Lits :
            program \in {LateBinding(n), Rebinding(m, n)} => result = Integer(n)

\* ------------------------------------------------------------------ C8

\* C8: no ReturnValue wrapper escapes: the value of eval is never one, and
\* the value apply_function hands back for a user function, here bound to r by
\* the Let around the call, is never one.
C8_ReturnSignalNeverEscapes ==
    /\ pc = "done" => result.t # "ReturnValue"
    /\ program \in ReturnPrograms =>
          \A n \in DOMAIN env.store : env.store[n].t # "ReturnValue"

\* ------------------------------------------------------------------ C9

RECURSIVE TokenTypesFrom(_)
\* The kinds of the tokens next_token returns, up to the first Eof.
TokenTypesFrom(l) ==
    LET r == Lexer_next_token(l)
    IN  IF r.tok.token_type = "Eof" \/ r.l.fault THEN <<r.tok.token_type>>
        ELSE <<r.tok.token_type>> \o TokenTypesFrom(r.l)

TokenTypes(input) == TokenTypesFrom(Lexer_new(input))

RECURSIVE ParameterTokens(_, _)
ParameterTokens(i, n) ==
    IF i > n THEN <<>>
    ELSE <<"Ident">> \o (IF i < n THEN <<"Comma">> ELSE <<>>) \o ParameterTokens(i + 1, n)

\* <function-keyword> ( p1 , ... , pn ) { 7 }
FunctionTokens(n) ==
    <<"Function", "LParen">> \o ParameterTokens(1, n)
    \o <<"RParen", "LBrace", "Int", "RBrace", "Eof">>

\* C9: the token sequence <function-keyword> ( p1 , ... , pn ) { body } parses
\* to a FunctionLiteral of the parameters p1..pn in order and the block, with
\* no diagnostic; and f = fn(a, b) { return a + b; }; f(3, 4) evaluates to 7.
C9_FunctionLiteral ==
    /\ \A n \in 0..MaxParams :
          (/\ source = FunctionSource(n)
           /\ TokenTypes(source) = FunctionTokens(n)
           /\ pc # "source") =>
              /\ errors = <<>>
              /\ program = <<Stmt(FunctionLiteral([i \in 1..n |-> Var(ParameterNames[i])],
                                                  <<Stmt(Lit(7))>>))>>
    /\ (source = FunctionScenario /\ pc # "source") =>
          /\ errors = <<>>
          /\ pc \in {"parsed", "done"}
          /\ (pc = "done" => result = Integer(7))

\* ------------------------------------------------------------------ C10

\* What f = fn(a, b) { body }; f(args) evaluates to when the arguments are
\* bound to the leading parameters, the other parameters stay unbound and the
\* surplus arguments are ignored; outer is the Option of a binding of b in the
\* defining scope.
ArityExpected(body, args, outer) ==
    LET a == IF Len(args) >= 1 THEN Integer(args[1])
             ELSE Error(<<"identifier not found: ", "a">>)
        b == IF Len(args) >= 2 THEN Integer(args[2])
             ELSE IF outer # <<>> THEN outer[1]
             ELSE Error(<<"identifier not found: ", "b">>)
    IN  CASE body = Var("a") -> a
          [] body = Var("b") -> b
          [] body = Lit(7) -> Integer(7)
          [] body = Add(Var("a"), Var("b")) ->
               IF a.t = "Error" THEN a
               ELSE IF b.t = "Error" THEN b
               ELSE Integer(a.value + b.value)

\* C10: a call with fewer arguments than parameters does not fault: the
\* arguments are bound to the leading parameters and the other parameters are
\* unbound in the call scope; a call with more arguments than parameters
\* ignores the surplus, its result is that of the call with the first n.
C10_CallArity ==
    program \in ArityPrograms =>
        LET invoked == program[Len(program)].expression
            body == program[Len(program) - 1].value.body[1].expression
            args == [i \in 1..Len(invoked.arguments) |-> invoked.arguments[i].value]
            outer == IF Len(program) = 3 THEN <<Integer(9)>> ELSE <<>>
        IN  /\ pc \notin {"fault", "running"}
            /\ idx = Len(program) => result = ArityExpected(body, args, outer)

C10_Witness ==
    /\ source = AritySource
    /\ program = ArityProgram(Var("b"), <<1>>)
    /\ idx = 2
    /\ pc = "done"
    /\ result = Error(<<"identifier not found: ", "b">>)

C10_WitnessSurplus ==
    /\ source = AritySurplusSource
    /\ program = ArityProgram(Add(Var("a"), Var("b")), <<1, 2, 3>>)
    /\ idx = 2
    /\ pc = "done"
    /\ result = Integer(3)

\* ------------------------------------------------------------------ C11

RECURSIVE IsSubsequence(_, _)
\* s is t with some elements left out.
IsSubsequence(s, t) ==
    IF s = <<>> THEN TRUE
    ELSE IF t = <<>> THEN FALSE
    ELSE IF Head(s) = Head(t) THEN IsSubsequence(Tail(s), Tail(t))
    ELSE IsSubsequence(s, Tail(t))

\* C11: on malformed; a; malformed; b; one parse_program call records at
\* least two diagnostics, one or more for each malformed statement, and the
\* program it returns holds the statements a and b in that order.
C11_ErrorAccumulation ==
    (source \in AccumulationSources /\ pc # "source") =>
        \A m1 \in MalformedStatements, m2 \in MalformedStatements, a \in Lits, b \in Lits :
            (/\ source = AccumulationSource(m1, a, m2, b)
             /\ TokenTypes(source) = AccumulationTokens(m1, m2)) =>
                /\ pc # "fault"
                /\ Len(errors) >= 2
                /\ pc = "rejected" => IsSubsequence(<<Stmt(Lit(a)), Stmt(Lit(b))>>, program)


\* ------------------------------------------------------------------ C12

\* Where a lexer is in its input.
ScanPosition(l) ==
    [position |-> l.position, read_position |-> l.read_position, ch |-> l.ch,
     line |-> l.line, column |-> l.column]

\* w1 with every byte replaced by a digit: a number of the same length, which
\* next_token reads without looking at the word behind it.
AsNumber(w) == [i \in DOMAIN w |-> "1"]

\* The n-th call of next_token on a lexer, n >= 1.
RECURSIVE NthCall(_, _)
NthCall(l, n) ==
    IF n = 1 THEN Lexer_next_token(l) ELSE NthCall(Lexer_next_token(l).l, n - 1)

\* The end of the run of whitespace (blank = TRUE) or of other bytes that
\* starts at s[i]: the index of the first byte behind it.
SpanEnd(s, i, blank) ==
    LET ends == {j \in i..(Len(s) + 1) :
                    j = Len(s) + 1 \/ is_ascii_whitespace(s[j]) # blank}
    IN  CHOOSE j \in ends : \A k \in ends : j <= k

\* s as lead w1 blank w2 trailer.
WordPair(s) ==
    LET a == SpanEnd(s, 1, TRUE)
        b == SpanEnd(s, a, FALSE)
        c == SpanEnd(s, b, TRUE)
        d == SpanEnd(s, c, FALSE)
    IN  [lead |-> SubSeq(s, 1, a - 1), w1 |-> SubSeq(s, a, b - 1),
         blank |-> SubSeq(s, b, c - 1), w2 |-> SubSeq(s, c, d - 1),
         trailer |-> SubSeq(s, d, Len(s))]

\* The text is one of the word pairs, and `w1 w2` is no keyword.
IsWordPairCase(c) ==
    /\ c.lead \in Leads
    /\ c.w1 \in FirstWords
    /\ c.blank \in Blanks
    /\ c.w2 \in SecondWords
    /\ c.trailer \in Trailers
    /\ lookup_ident(c.w1 \o <<" ">> \o c.w2) = "Ident"

\* C12: when w1 is followed after whitespace by w2 and `w1 w2` is no keyword,
\* the first call of next_token returns the token w1 has when scanned alone and
\* the second the token w2 has when what stands before it is not a word (same
\* kind, literal, line and column), and after each of the two calls the lexer's
\* offset, current byte, line and column are what they are without a lookahead.
C12_LexicalRewind ==
    LET c == WordPair(source)
        apart == WordPairSource(c.lead, AsNumber(c.w1), c.blank, c.w2, c.trailer)
    IN  (pc \in {"lexing", "fault"} /\ IsWordPairCase(c)) =>
            /\ pc = "lexing"
            /\ Len(tokens) >= 1 =>
                   /\ tokens[1] = NthCall(Lexer_new(c.lead \o c.w1), 1).tok
                   /\ tokens[1].literal = c.w1
                   /\ tokens[1].token_type = lookup_ident(c.w1)
            /\ Len(tokens) = 1 =>
                   ScanPosition(lexer) =
                       ScanPosition(read_chars(Lexer_new(source), Len(c.lead \o c.w1) + 1))
            /\ Len(tokens) >= 2 =>
                   /\ tokens[2] = NthCall(Lexer_new(apart), 2).tok
                   /\ tokens[2].literal = c.w2
            /\ Len(tokens) = 2 =>
                   ScanPosition(lexer) = ScanPosition(NthCall(Lexer_new(apart), 2).l)

\* Both tokens returned, where w1 begins a two-word keyword, w2 does not
\* complete it, and a line ends between the two.
C12_Witness ==
    /\ pc = "lexing"
    /\ IsWordPairCase(WordPair(source))
    /\ WordPair(source).w1 = <<"m", "o", "n", "e">>
    /\ "\n" \in Range(WordPair(source).blank)
    /\ Len(tokens) = 2
    /\ tokens[2].token_type = "Ident"
    /\ tokens[2].line > tokens[1].line

\* ------------------------------------------------------------------ C13

EofReturned == \E i \in DOMAIN tokens : tokens[i].token_type = "Eof"

\* Behind an Eof token the caller was handed Eof tokens only.
EofIsFinal ==
    \A i \in DOMAIN tokens, j \in DOMAIN tokens :
        (i < j /\ tokens[i].token_type = "Eof") => tokens[j].token_type = "Eof"

\* C13: on every input, calling next_token again and again eventually returns
\* an Eof token, and every call after the first Eof token returns Eof as well.
C13_EndOfInput == <>EofReturned /\ []EofIsFinal

\* ------------------------------------------------------------------ C14

\* The token the caller was handed for the text behind `before`, once it was.
ReportedAs(before, literal) ==
    calls > before.tokens =>
        /\ Len(tokens) > before.tokens
        /\ tokens[before.tokens + 1].token_type = "Illegal"
        /\ tokens[before.tokens + 1].literal = literal
        /\ literal # <<>>

\* Every literal and comment that does not end, and every byte that starts no
\* token, comes back as an Illegal token with its message.
MalformedReported ==
    /\ \A before \in Befores, u \in Unterminated :
           source = before.text \o u.text => ReportedAs(before, u.message)
    /\ \A before \in Befores, c \in IllegalChars, after \in {<<>>, <<" ", "1">>, <<"1">>} :
           source = before.text \o <<c>> \o after => ReportedAs(before, <<c>>)

\* C14: on every input, non-ASCII text and malformed literals included, every
\* call of next_token returns a token and none panics; an illegal character, an
\* unterminated string, an empty or unterminated character literal and an
\* unterminated block comment each come back as an Illegal token with a message.
C14_LexicalErrorsAreTokens ==
    pc \in {"lexing", "fault"} =>
        /\ pc = "lexing"
        /\ Len(tokens) = calls
        /\ MalformedReported

\* ------------------------------------------------------------------ C15

\* C15: lookup_ident gives a text, the text with letters capitalised, the text
\* with whitespace added in front, behind or next to whitespace, and
\* normalize_keyword of any of them the same kind; normalize_keyword of a
\* normalized text is that text; and a text whose normalized form is no entry
\* of the keyword table is an Ident.
C15_LookupNormalizes ==
    pc = "text" =>
        /\ \A i \in DOMAIN kinds : kinds[i] = kinds[1]
        /\ \A i \in DOMAIN texts :
               (i > 1 /\ texts[i].by = "normalize_keyword") =>
                   /\ normalize_keyword(texts[i].text) = texts[i].text
                   /\ texts[i - 1].by = "normalize_keyword" => texts[i].text = texts[i - 1].text
                   /\ (KEYWORDS_get(texts[i].text) = <<>> /\ i - 1 <= Len(kinds)) =>
                          kinds[i - 1] = "Ident"

\* A two-word keyword with a capital and a doubled blank was looked up, then
\* normalized and looked up again.
C15_Witness ==
    /\ pc = "text"
    /\ source = <<"m", "o", "n", "e", " ", "k", "o", "r", "i">>
    /\ Len(texts) = 3
    /\ Len(kinds) = 3
    /\ texts[2].by \in {"case", "blank"}
    /\ texts[3].by = "normalize_keyword"
    /\ texts[2].text # source
    /\ texts[3].text = source
    /\ kinds[3] = "Dhoro"

\* ------------------------------------------------------------------ C16

\* What the statement that ends the block evaluates to.
StopValue(stopper) == eval_statement(stopper, Ctx(Environment_new, <<>>, MaxSteps)).v

\* The statements of the program evaluated when the block has ended.
StopIndex(place) ==
    CASE place = "program" -> 4
      [] place \in {"if", "while"} -> 1
      [] place = "function" -> 2

Line(n) == <<DigitOf(n)>>

\* C16: in a block (a program, the consequence of an If, the body of a While or
\* of a function) the statements before the first one whose value is an Error
\* or a ReturnValue are evaluated in order, that value is the value of the block
\* (of the program: eval's result), and no statement behind it is evaluated:
\* nothing it would print is printed, nothing it would bind is bound or changed.
C16_StopAtFirst ==
    \A place \in StopPlaces, stopper \in Stoppers :
        program = StopProgram(place, stopper) =>
            LET value == StopValue(stopper)
                goes_on == place = "function" /\ value.t = "ReturnValue"
            IN  /\ pc \in {"parsed", "done"}
                /\ Line(3) \notin Range(out)
                /\ Environment_get(env, <<"y">>) = <<>>
                /\ Environment_get(env, <<"x">>) \in {<<>>, <<Integer(1)>>}
                /\ idx >= StopIndex(place) =>
                       /\ SubSeq(out, 1, 2) = <<Line(1), Line(2)>>
                       /\ idx > StopIndex(place) => goes_on
                /\ idx = StopIndex(place) =>
                       /\ pc = (IF goes_on THEN "parsed" ELSE "done")
                       /\ result = IF value.t = "ReturnValue" THEN value.value ELSE value
                       /\ out = <<Line(1), Line(2)>>
                       /\ place # "function" => Environment_get(env, <<"x">>) = <<Integer(1)>>

\* A ReturnValue ended the body of a While, and an Error the program.
C16_Witness ==
    \/ /\ program = StopProgram("while", Return(Lit(1)))
       /\ pc = "done"
       /\ result = Integer(1)
       /\ out = <<Line(1), Line(2)>>
    \/ /\ program = StopProgram("program", Let(Var("x"), Undefined))
       /\ pc = "done"
       /\ result.t = "Error"
       /\ idx = 4

\* ------------------------------------------------------------------ C17

\* C17: a While or For statement whose condition evaluates to an Error ends,
\* its value is that Error, and the body and the update are never evaluated
\* on account of it.
C17_LoopConditionError ==
    \A condition \in ErrorConditions :
        (program \in LoopsOn(condition) /\ idx >= 1) =>
            /\ pc = "done"
            /\ idx = 1
            /\ result = eval_expression(condition, Ctx(Environment_new, <<>>, MaxSteps)).v
            /\ is_error(result)
            /\ out = <<>>

\* ------------------------------------------------------------------ C18

\* The value of an expression that reads no name.
ValueOf(e) == eval_expression(e, Ctx(Environment_new, <<>>, MaxSteps)).v

\* The same object: of the same kind, and equal.
SameObject(a, b) == a.t = b.t /\ a = b

\* C18: after Let{name, value} whose value is a non-Error v, the name is bound
\* to v in the scope the Let was evaluated in (a lookup yields v) and in no
\* scope outside it, and the statement's value is Null; when the value is an
\* Error, the Error is the statement's value and the name is bound as before.
C18_LetBinds ==
    /\ \A prior \in LetPriors, e \in LetValues :
           (program = LetProgram(prior, e) /\ idx > Len(prior)) =>
               IF is_error(ValueOf(e))
               THEN /\ pc = "done"
                    /\ idx = Len(prior) + 1
                    /\ SameObject(result, ValueOf(e))
                    /\ Environment_get(env, <<"x">>) =
                           (IF prior = <<>> THEN <<>> ELSE <<Integer(3)>>)
               ELSE /\ <<"x">> \in DOMAIN env.store
                    /\ SameObject(env.store[<<"x">>], ValueOf(e))
                    /\ idx = Len(prior) + 1 => result = Null /\ pc = "parsed"
                    /\ idx = Len(prior) + 2 =>
                           SameObject(format_boolean(result), format_boolean(ValueOf(e)))
    /\ \A a \in Lits, e \in LetValues :
           (program = ScopedLetProgram(a, e) /\ idx >= 3) =>
               /\ Environment_get(env, <<"x">>) = <<Integer(a)>>
               /\ IF is_error(ValueOf(e))
                  THEN /\ pc = "done"
                       /\ idx = 3
                       /\ SameObject(result, ValueOf(e))
                       /\ Environment_get(env, <<"r">>) = <<>>
                  ELSE /\ Environment_get(env, <<"r">>) # <<>>
                       /\ SameObject(Environment_get(env, <<"r">>)[1], ValueOf(e))
                       /\ idx = 3 => result = Null /\ pc = "parsed"

\* A Let in a call bound x to 2 there, and x is still 1 outside.
C18_Witness ==
    /\ program = ScopedLetProgram(1, Lit(2))
    /\ idx = 3
    /\ Environment_get(env, <<"r">>) = <<Integer(2)>>
    /\ Environment_get(env, <<"x">>) = <<Integer(1)>>
    /\ result = Null

\* ------------------------------------------------------------------ C19

\* The place of the first argument that is an Error, 0 when none is.
FirstError(args) ==
    IF \E i \in DOMAIN args : args[i] \in ErrorArguments
    THEN CHOOSE i \in DOMAIN args :
             /\ args[i] \in ErrorArguments
             /\ \A j \in 1..(i - 1) : args[j] \notin ErrorArguments
    ELSE 0

\* The lines the arguments in front of the first Error print, in order.
LinesBefore(args) ==
    [i \in 1..(IF FirstError(args) = 0 THEN Len(args) ELSE FirstError(args) - 1) |-> Line(i)]

\* C19: a Call evaluates the callee, then the arguments from left to right; at
\* the first argument whose value is an Error no later argument is evaluated,
\* the function is not applied, and the Error is the value of the call; when the
\* callee is an Error no argument is evaluated.
C19_CallOrder ==
    \A args \in SeenArgLists :
        /\ (program = SeenCallProgram(args) /\ idx >= 2) =>
               IF FirstError(args) = 0
               THEN /\ SubSeq(out, 1, Len(args) + 2) = <<Line(0)>> \o LinesBefore(args) \o <<Line(9)>>
                    /\ idx = 2 => result = Integer(7) /\ pc = "parsed"
               ELSE /\ pc = "done"
                    /\ idx = 2
                    /\ out = <<Line(0)>> \o LinesBefore(args)
                    /\ SameObject(result, ValueOf(args[FirstError(args)]))
        /\ (program = ErrorCalleeProgram(args) /\ idx >= 1) =>
               /\ pc = "done"
               /\ idx = 1
               /\ out = <<>>
               /\ SameObject(result, ValueOf(Undefined))
        /\ (program = DekhaoProgram(args) /\ idx >= 1) =>
               IF FirstError(args) = 0
               THEN /\ SubSeq(out, 1, Len(args)) = LinesBefore(args)
                    /\ Len(out) > Len(args)
                    /\ idx = 1 => result = Null /\ pc = "parsed"
               ELSE /\ pc = "done"
                    /\ idx = 1
                    /\ out = LinesBefore(args)
                    /\ SameObject(result, ValueOf(args[FirstError(args)]))

\* The second of three arguments is an Error: the callee and the first
\* argument were evaluated, the third was not, the function was not applied.
C19_Witness ==
    /\ program = SeenCallProgram(<<Say(1), Undefined, Say(3)>>)
    /\ pc = "done"
    /\ out = <<Line(0), Line(1)>>
    /\ result.t = "Error"

\* ------------------------------------------------------------------ C20

\* The body of that kind ends the loop on the turn that starts with i bound to i.
BodyEnds(kind, i) == kind \in {"return", "error"} \/ (kind = "second" /\ i + 1 > 1)

\* The lines a For of the programs prints from the turn that starts with i
\* bound to i, for at most `turns` turns: 0 for the condition, 1 for the body,
\* 2 for the update.
RECURSIVE ForLines(_, _, _, _, _)
ForLines(i, condition, update, kind, turns) ==
    LET asked == IF condition = <<>> THEN <<>> ELSE <<Line(0)>>
        holds == condition = <<>> \/ \E n \in ForBounds : condition = <<CondSeen(n)>> /\ i < n
    IN  IF turns = 0 THEN <<>>
        ELSE IF ~holds THEN asked
        ELSE asked \o <<Line(1)>> \o
             (IF BodyEnds(kind, i) THEN <<>>
              ELSE (IF update = <<>> THEN <<>> ELSE <<Line(2)>>)
                   \o ForLines(i + 1, condition, update, kind, turns - 1))

\* The turns the loop takes, MaxSteps + 1 for a loop that does not end.
RECURSIVE ForTurns(_, _, _)
ForTurns(i, condition, kind) ==
    IF i > MaxSteps THEN MaxSteps + 1
    ELSE IF ~(condition = <<>> \/ \E n \in ForBounds : condition = <<CondSeen(n)>> /\ i < n)
    THEN i
    ELSE IF BodyEnds(kind, i) THEN i + 1
    ELSE ForTurns(i + 1, condition, kind)

\* The value of the For: of the body that ended it, or Null.
ForValue(condition, kind) ==
    LET turns == ForTurns(0, condition, kind)
        entered == condition = <<>> \/ \E n \in ForBounds : condition = <<CondSeen(n)>> /\ turns - 1 < n
    IN  IF turns > 0 /\ entered /\ BodyEnds(kind, turns - 1)
        THEN IF kind = "error" THEN ValueOf(Undefined) ELSE Integer(5)
        ELSE Null

\* C20: a For evaluates init once, before the first condition; then on every
\* turn the condition, the body, the update, in that order, an absent
\* condition counting as true; a body that yields an Error or a ReturnValue
\* ends the loop with that value, without the update of that turn; a condition
\* that is not truthy ends it with Null.
C20_ForOrder ==
    \A init \in ForInits, condition \in ForConditions, update \in ForUpdates,
       kind \in ForBodyKinds :
        (program = ForProgram(init, condition, update, kind) /\ idx >= 2) =>
            LET first == IF init = <<Stmt(Say(7))>> THEN <<Line(7)>> ELSE <<>>
                lines == first \o ForLines(0, condition, update, kind, MaxSteps)
                value == ForValue(condition, kind)
            IN  IF ForTurns(0, condition, kind) > MaxSteps
                THEN /\ pc = "running"
                     /\ idx = 2
                     /\ out = lines
                ELSE /\ SubSeq(out, 1, Len(lines)) = lines
                     /\ idx = 2 =>
                            /\ out = lines
                            /\ SameObject(result, value)
                            /\ pc = (IF value = Null THEN "parsed" ELSE "done")
                     /\ idx = 3 =>
                            /\ out = lines \o <<Line(8)>>
                            /\ value = Null

\* Two turns with init, condition, body and update seen, then the condition
\* was not truthy; and a body that returned on its second turn.
C20_Witness ==
    \/ /\ program = ForProgram(<<Stmt(Say(7))>>, <<CondSeen(2)>>, <<Say(2)>>, "count")
       /\ idx = 2
       /\ out = <<Line(7), Line(0), Line(1), Line(2), Line(0), Line(1), Line(2), Line(0)>>
       /\ result = Null
    \/ /\ program = ForProgram(<<>>, <<>>, <<Say(2)>>, "second")
       /\ idx = 2
       /\ out = <<Line(1), Line(2), Line(1)>>
       /\ result = Integer(5)

\* ------------------------------------------------------------------ C21

\* C21: an If whose condition is not an Error has the value of its consequence
\* block when the condition is truthy (and the block was evaluated), otherwise
\* the value of the alternative when there is one (and it was evaluated),
\* otherwise Null with nothing evaluated; Boolean b is b, the strings Ha and Na
\* are true and false, Null is false, every other value, Integer(0) included,
\* is true.
C21_IfTruthiness ==
    \A condition \in IfConditions, consequence \in IfConsequences,
       alternative \in IfAlternatives :
        (program = IfProgram(condition, consequence, alternative) /\ idx = 1) =>
            IF condition.truthy
            THEN CASE consequence = <<>> ->
                        out = <<>> /\ SameObject(result, Null) /\ pc = "parsed"
                   [] consequence = <<Stmt(Say(1)), Stmt(Lit(5))>> ->
                        out = <<Line(1)>> /\ SameObject(result, Integer(5)) /\ pc = "parsed"
                   [] OTHER ->
                        out = <<Line(1)>> /\ SameObject(result, Integer(3)) /\ pc = "done"
            ELSE IF alternative # <<>>
            THEN out = <<Line(2)>> /\ SameObject(result, Integer(4)) /\ pc = "parsed"
            ELSE out = <<>> /\ SameObject(result, Null) /\ pc = "parsed"

\* The condition Integer(0) took the consequence, and the condition `Na` took
\* the alternative.
C21_Witness ==
    /\ idx = 1
    /\ \/ /\ \E alternative \in IfAlternatives :
                program = IfProgram([expr |-> Lit(0), truthy |-> TRUE],
                                    <<Stmt(Say(1)), Stmt(Lit(5))>>, alternative)
          /\ result = Integer(5)
          /\ out = <<Line(1)>>
       \/ /\ \E consequence \in IfConsequences, alternative \in IfAlternatives :
                /\ alternative # <<>>
                /\ program = IfProgram([expr |-> StringLiteral(<<"N", "a">>), truthy |-> FALSE],
                                       consequence, alternative)
          /\ result = Integer(4)
          /\ out = <<Line(2)>>

\* ------------------------------------------------------------------ C22

\* C22: a statement that starts with the while or the for keyword is parsed
\* into a While or a For with a block body, and a break or continue keyword
\* into Break or Continue, each as the first statement of the program and
\* without a diagnostic.
C22_LoopStatements ==
    \A l \in LoopStatements :
        (source = l.text /\ pc # "source") =>
            /\ pc = "parsed"
            /\ errors = <<>>
            /\ Len(program) >= 1
            /\ program[1].s = l.statement

\* ------------------------------------------------------------------ C23

\* The first place at or after `from` where the bytes of `close` stand in
\* `text`, 0 when there is none.
RECURSIVE FirstOccurrence(_, _, _)
FirstOccurrence(text, from, close) ==
    IF from + Len(close) - 1 > Len(text) THEN 0
    ELSE IF SubSeq(text, from, from + Len(close) - 1) = close THEN from
    ELSE FirstOccurrence(text, from + 1, close)

IsPrefix(s, t) == Len(s) <= Len(t) /\ SubSeq(t, 1, Len(s)) = s

\* C23: next_token on a text that starts with a block comment returns the
\* Illegal token `Unterminated multi-line comment ...` when the closer does not
\* occur after the opener, and otherwise the token that the text right after
\* the first occurrence of the closer starts with.
C23_BlockComment ==
    \A style \in CommentStyles :
        (/\ source \in CommentSources
         /\ IsPrefix(style.open, source)
         /\ pc = "lexing"
         /\ Len(tokens) >= 1) =>
            LET at == FirstOccurrence(source, Len(style.open) + 1, style.close)
                rest == SubSeq(source, at + Len(style.close), Len(source))
                after == Lexer_next_token(Lexer_new(rest)).tok
            IN  IF at = 0
                THEN /\ tokens[1].token_type = "Illegal"
                     /\ tokens[1].literal =
                            <<"Unterminated multi-line comment starting with " \o style.start>>
                ELSE /\ tokens[1].token_type = after.token_type
                     /\ tokens[1].literal = after.literal

\* ------------------------------------------------------------------ C24

\* C24: on a text that starts with a maximal run of ASCII letters, underscores
\* and Bengali code points, the first call of next_token returns, and returns
\* one token whose literal is the whole run, of the kind lookup_ident gives the
\* run.
C24_IdentifierRun ==
    \A run \in IdentifierRuns, end \in RunEnds :
        source = run \o end =>
            /\ pc = "lexing"
            /\ Len(tokens) >= 1 =>
                   /\ tokens[1].literal = run
                   /\ tokens[1].token_type = lookup_ident(run)

\* ------------------------------------------------------------------ C25

\* C25: after next_token has returned the token of a word, the following calls
\* return the tokens of the lexemes that stand behind the word, the first of
\* them included: the second token is that of the first lexeme after the
\* word, and with the Eof the kinds are those of the word and of all that
\* follows it.
C25_NoLexemeDropped ==
    \A word \in LeadingWords, gap \in WordGaps, follower \in Followers :
        (source = word \o gap \o follower.text /\ pc = "lexing") =>
            /\ Len(tokens) >= 1 => tokens[1].literal = word
            /\ Len(tokens) >= 2 =>
                   /\ tokens[2].token_type = follower.tokens[1]
                   /\ tokens[2].literal = <<follower.text[1]>> \/ follower.tokens[1] \in {"Eq", "String"}
            /\ Len(tokens) = 1 + Len(follower.tokens) =>
                   [i \in 2..Len(tokens) |-> tokens[i].token_type]
                       = [i \in 2..Len(tokens) |-> follower.tokens[i - 1]]

\* ------------------------------------------------------------------ C26

\* C26: a function bound to f by a Let, whose body calls f below its base
\* case, evaluates for the argument k to the result of the recursion: 0 when
\* each call hands on the value of the next, k + ... + 1 when each adds its
\* argument; the name f resolves inside the body.
C26_Recursion ==
    \A body \in RecursiveBodies, k \in RecursionDepths :
        (program = RecursiveProgram(body, k) /\ idx = 2) =>
            SameObject(result,
                       IF body.kind = "down" THEN Integer(0) ELSE Integer((k * (k + 1)) \div 2))

\* ------------------------------------------------------------------ C27

\* C27: `a op b` with Boolean literals a and b and a logical-and or
\* logical-or keyword op is parsed into Infix(a, op, b) without a diagnostic
\* and evaluates to the conjunction, respectively the disjunction, of a and b.
C27_LogicalOperators ==
    \A a \in BooleanWords, op \in LogicalKeywords, b \in BooleanWords :
        (source = LogicalSource(a, op, b) /\ pc # "source") =>
            /\ errors = <<>>
            /\ program = <<Stmt(Infix(BooleanLiteral(a.value), op.text, BooleanLiteral(b.value)))>>
            /\ idx = 1 =>
                   SameObject(format_boolean(result),
                              format_boolean(Boolean(IF op.token = "Ebong"
                                                     THEN a.value /\ b.value
                                                     ELSE a.value \/ b.value)))

\* ------------------------------------------------------------------ C28

\* C28: on `statement a;` one parse_program call leaves errors empty only
\* when it built both statements; for a first statement that the grammar does
\* not accept, for which parse_statement returns no statement, errors is not
\* empty afterwards.
C28_NoSilentError ==
    \A statement \in WellFormedStatements \cup MalformedStatements \cup MalformedIfs,
       a \in Lits :
        (/\ source = FirstThenSource(statement, a)
         /\ pc # "source"
         /\ TokenTypes(source) = statement.tokens \o <<"Int", "Semicolon", "Eof">>) =>
            /\ pc # "fault"
            /\ statement \notin WellFormedStatements => errors # <<>>
            /\ errors = <<>> => Len(program) = 2 /\ program[2] = Stmt(Lit(a))

\* ------------------------------------------------------------------ C29

\* The tokens up to the first Eof that the parser has not yet moved past, the
\* current one counted.
TokensLeft(p) ==
    IF cur_token_is(p, "Eof") THEN 0
    ELSE IF peek_token_is(p, "Eof") THEN 1
    ELSE 1 + Len(TokenTypesFrom(p.lexer))

\* C29: parse_program terminates on every text, whole or cut off inside a
\* block, a template literal, a parameter list, an argument list or an If: the
\* loop is left after finitely many passes, every pass that stays in the loop
\* leaves fewer tokens before Eof than it found, no pass starts at Eof, and what
\* the passes built is what parse_program returns.
C29_ParseProgramTerminates ==
    /\ <>(pc # "parsing")
    /\ [][pc' = "parsing" => TokensLeft(parser') < TokensLeft(parser)]_vars
    /\ [][cur_token_is(parser, "Eof") => pc' # "parsing"]_vars
    /\ [](pc = "parsing" => passes <= Len(source))
    /\ [](pc \in {"parsed", "rejected"} =>
            LET whole == parse_program(Parser_new(Lexer_new(source)))
            IN  program = whole.program /\ errors = whole.p.errors)

\* parse_program has returned after several passes on a text that ends inside
\* the argument list of a call.
C29_Witness ==
    /\ pc = "rejected"
    /\ passes >= 3
    /\ source = SubSeq(FunctionScenario, 1, Len(FunctionScenario) - 3)

\* ------------------------------------------------------------------ C30

\* The lines that may still be typed: up to MaxLines of them.
Continuations == UNION {[1..n -> ReplLines] : n \in 0..MaxLines}

\* C30: while the REPL waits for a line its buffer is never one with balanced
\* braces left unparsed, and some further lines make the braces of the buffer
\* balance, so that it is parsed and cleared.
C30_ReplNeverStuck ==
    pc = "repl" =>
        /\ input_buffer # <<>> => ~brackets_balanced(input_buffer)
        /\ \E lines \in Continuations : brackets_balanced(input_buffer \o Flatten(lines))
====
